---- MODULE Spec2Model ----
(***************************************************************************)
(* smallpie backend: the ordered transcript store, the live transcription  *)
(* orchestrator with its segment workers and the whisper gate, and the     *)
(* session token service (src/backend/pipeline.py, audio.py, tokens.py,    *)
(* api.py, config.py).                                                     *)
(*                                                                         *)
(* Text is a sequence of characters (a fixed literal such as the error     *)
(* sentinel's prefix is kept as one element).  Wall-clock time is counted  *)
(* in ticks of half a second, the timeout of the orchestrator's queue      *)
(* poll; audio durations are in milliseconds.                              *)
(***************************************************************************)
EXTENDS Integers, Sequences, FiniteSets, TLC

VARIABLES
    \* ThreadSafeTranscript
    parts,              \* self.parts: the dict, as its (key, value) items in insertion order
    calls,              \* history: the add() calls completed so far, in completion order
    lastRead,           \* history: result of the last get_full_transcript() of a store client
    \* websocket_record / live_transcription_orchestrator
    data_queue,         \* queue.Queue of audio increments (blob ids)
    recording_stopped,  \* threading.Event
    nput,               \* history: increments the ingestion handler has enqueued
    arrived,            \* history: per increment, the whole CHUNK_SECONDS of the
                        \* session that had passed when it was enqueued
    opc,                \* the orchestrator's position
    all_part_files,     \* part files written, in order (the blob each holds)
    disk,               \* AUDIO_DIR: the part files that exist (the blob each holds)
    chunk_index,
    chunk_start_time,
    processing_threads, \* thread handles, in dispatch order
    targs,              \* the arguments each dispatched thread was started with
    transcript,         \* the orchestrator's local after get_full_transcript()
    folder,             \* the orchestrator's local: the meeting folder saved, or None
    meetings,           \* MEETINGS_DIR: the folders that exist
    olog,               \* history: the orchestrator's external calls, in order
    clock,              \* time.time(), in ticks
    \* worker threads and the upload pipeline thread
    tpc,                \* each thread's position
    tchunks,            \* WAV chunks the thread has still to transcribe
    tacc,               \* transcribe_wav_file's local list `parts`
    twav,               \* the WAV file the thread works on: its audio in ms, 0 when none
    \* config.WHISPER_SEMAPHORE
    sem,                \* permits available
    \* tokens.py
    active,             \* token_registry.active: the payloads registered, one per jti
    issue_buckets,      \* issue_limiter.buckets: per client, the admitted calls' times
    verify_buckets,     \* verify_limiter.buckets
    issued,             \* history: the tokens issue_token has returned, in order
    tlast,              \* history: the last issue_token or validate_token call's outcome
    okCount,            \* history: per jti, the validate_token calls that succeeded
    revoked,            \* history: the jtis of the tokens a revocation call named
    admitted,           \* history: per client, the times of the issue_token calls admitted
    \* a RateLimiter shared by threads
    buckets,            \* self.buckets: per key, the admitted calls' times
    lpc,                \* each calling thread's position in allow()
    lnow,               \* allow()'s local now
    lkey,               \* allow()'s argument
    \* api.py
    config,             \* config.ACCESS_TOKEN and config.BOOTSTRAP_SECRET
    nreq,               \* history: the /ws and upload requests received
    open,               \* the requests admitted whose session has not started or ended
    started,            \* history: the orchestrators and upload pipelines started
    hlast,              \* history: the last response of /api/token
    \* build_and_extract_wav_chunk, call by call
    xpc,                \* each call's position
    tmp,                \* the temporary files that exist
    xret                \* what each call returned

storeVars == <<parts, calls, lastRead>>
partVars == <<all_part_files, disk>>
ingestVars == <<data_queue, recording_stopped, nput, arrived>>
orchVars == <<opc, all_part_files, disk, chunk_index, chunk_start_time, processing_threads,
              targs, transcript, folder, meetings, olog, clock>>
threadVars == <<tpc, tchunks, tacc, twav, sem>>

limVars == <<buckets, lpc, lnow, lkey>>
tokState == <<active, issue_buckets, verify_buckets, issued, tlast, okCount, revoked,
              admitted>>
apiVars == <<config, nreq, open, started, hlast>>
extractVars == <<xpc, tmp, xret>>
tokVars == <<tokState, limVars, apiVars, extractVars>>
liveNoClock == <<opc, all_part_files, disk, chunk_index, chunk_start_time, processing_threads,
                 targs, transcript, folder, meetings, olog>>

vars == <<parts, calls, lastRead, data_queue, recording_stopped, nput, arrived, opc,
          all_part_files, disk, chunk_index, chunk_start_time, processing_threads, targs,
          transcript, folder, meetings, olog, clock, tpc, tchunks, tacc, twav, sem,
          active, issue_buckets, verify_buckets, issued, tlast, okCount, revoked,
          admitted, buckets, lpc, lnow, lkey, config, nreq, open, started, hlast,
          xpc, tmp, xret>>

-----------------------------------------------------------------------------
(* Bounds *)

MaxIdx == 2             \* segment indices 0..MaxIdx offered to the store's clients
MaxAdds == 3            \* add() calls of the store's clients
MaxBlobs == 2           \* audio increments a live session receives
MaxRollovers == 1       \* window rollovers of a session when time is left open
MaxClock == 301         \* ticks of wall-clock time a live session is followed (150.5 s)
MaxTokens == 2          \* tokens issued
TokMaxClock == 4        \* ticks of wall-clock time the token service is followed
OkCap == 2              \* okCount counts up to OkCap ("OkCap or more")
LimThreads == 3         \* threads that call one RateLimiter's allow()
LimMaxCalls == 2        \* that RateLimiter's max_calls
LimWindow == 1          \* that RateLimiter's window_seconds
LimMaxClock == 4        \* ticks of wall-clock time that RateLimiter is followed
MaxRequests == 2        \* /ws and upload requests
MaxApiTokens == 1       \* tokens issued through /api/token

(* Program constants *)

CHUNK_SECONDS == 60
WHISPER_PERMITS == 1    \* threading.Semaphore(1)
TicksPerSecond == 2     \* data_queue.get(timeout=0.5): one tick per timed-out poll

(* Configuration (config.py reads each from the environment; the values    *)
(* here are a small configuration, the defaults being 600, 30, 300, 120    *)
(* and 300 in the order below)                                             *)

TOKEN_TTL_SECONDS == 1
TOKEN_ISSUE_LIMIT == 1
TOKEN_ISSUE_WINDOW_SECONDS == 1
TOKEN_VERIFY_LIMIT == 2
TOKEN_VERIFY_WINDOW_SECONDS == 1

-----------------------------------------------------------------------------
(* Text *)

None == "None"

NL == "\n"

\* str.strip() treats these as whitespace
IsSpace(c) == c \in {" ", NL}

RECURSIVE LStrip(_)
LStrip(s) == IF s # <<>> /\ IsSpace(Head(s)) THEN LStrip(Tail(s)) ELSE s

RECURSIVE RStrip(_)
RStrip(s) ==
    IF s # <<>> /\ IsSpace(s[Len(s)]) THEN RStrip(SubSeq(s, 1, Len(s) - 1)) ELSE s

\* str.strip()
Strip(s) == RStrip(LStrip(s))

\* Python truthiness of a str
Truthy(s) == s # <<>>

\* sep.join(list)
RECURSIVE Join(_, _)
Join(sep, list) ==
    IF list = <<>> THEN <<>>
    ELSE IF Len(list) = 1 THEN list[1]
    ELSE list[1] \o sep \o Join(sep, Tail(list))

\* a filter that also drops the fragments starting like an error sentinel
RECURSIVE FilterNonBlankNoError(_)
FilterNonBlankNoError(list) ==
    IF list = <<>> THEN <<>>
    ELSE IF Truthy(Strip(Head(list))) /\ Head(list)[1] # "[[ERROR: Failed to transcribe chunk "
         THEN <<Head(list)>> \o FilterNonBlankNoError(Tail(list))
         ELSE FilterNonBlankNoError(Tail(list))

\* [x for x in list if x.strip()]
RECURSIVE FilterNonBlank(_)
FilterNonBlank(list) ==
    IF list = <<>> THEN <<>>
    ELSE IF Truthy(Strip(Head(list)))
         THEN <<Head(list)>> \o FilterNonBlank(Tail(list))
         ELSE FilterNonBlank(Tail(list))

\* sorted(iterable of ints)
RECURSIVE SortedInts(_)
SortedInts(S) ==
    IF S = {} THEN <<>>
    ELSE LET m == CHOOSE x \in S : \A y \in S : x <= y
         IN <<m>> \o SortedInts(S \ {m})

Range(f) == {f[p] : p \in DOMAIN f}

-----------------------------------------------------------------------------
(* dict[int, str], insertion ordered *)

DictKeys(d) == {d[p].k : p \in 1..Len(d)}

DictKeysInOrder(d) == [p \in 1..Len(d) |-> d[p].k]

DictGet(d, k) == d[CHOOSE p \in 1..Len(d) : d[p].k = k].v

\* a store that appends on every assignment, keeping the old entry
DictSetAppend(d, k, v) == Append(d, [k |-> k, v |-> v])

\* d[k] = v
DictSet(d, k, v) ==
    IF k \in DictKeys(d)
    THEN [p \in 1..Len(d) |-> IF d[p].k = k THEN [k |-> k, v |-> v] ELSE d[p]]
    ELSE Append(d, [k |-> k, v |-> v])

-----------------------------------------------------------------------------
(* ThreadSafeTranscript *)

\* add(index, text); the body runs under self.lock, one atomic step
add(store, index, text) == DictSet(store, index, text)

\* the keys as the dict yields them, unsorted
KeyOrderInsertion(store) == DictKeysInOrder(store)

\* sorted(self.parts.keys())
KeyOrder(store) == SortedInts(DictKeys(store))

\* get_full_transcript(); the body runs under self.lock, one atomic step
get_full_transcript(store) ==
    LET keys == KeyOrder(store)
        sorted_parts == [p \in 1..Len(keys) |-> DictGet(store, keys[p])]
    IN Join(<<NL, NL>>, FilterNonBlank(sorted_parts))

-----------------------------------------------------------------------------
(* Threads: the worker of chunk i has id i; one upload pipeline thread     *)
(* competes with them for the whisper gate.                                *)

ChunkTicks == CHUNK_SECONDS * TicksPerSecond

MaxChunkIndex ==
    IF MaxRollovers > MaxClock \div (ChunkTicks + 1)
    THEN MaxRollovers ELSE MaxClock \div (ChunkTicks + 1)

LiveThreads == 0..MaxChunkIndex
UploadThread == MaxChunkIndex + 1
Threads == LiveThreads \cup {UploadThread}

\* duration_sec=None
NoneSec == 0 - 1

NoArgs == [part_files |-> <<>>, start_sec |-> NoneSec, duration_sec |-> NoneSec]

Digit(i) == <<"0", "1", "2", "3", "4", "5", "6", "7", "8", "9">>[i + 1]

\* f"[[ERROR: Failed to transcribe chunk {chunk_index}]]"
Sentinel(i) == <<"[[ERROR: Failed to transcribe chunk ", Digit(i), "]]">>

\* what whisper-cli writes for the audio of thread t, stripped
WhisperText(t) == <<(<<"a", "b", "c", "d", "e", "f", "g", "h">>)[t + 1]>>

-----------------------------------------------------------------------------
(* audio.py *)

Min(a, b) == IF a < b THEN a ELSE b

\* a slicer that cuts a last chunk however short
RECURSIVE SliceFromNoMin(_, _, _)
SliceFromNoMin(start, duration, chunk_ms) ==
    IF ~(start < duration) THEN <<>>
    ELSE LET end == Min(start + chunk_ms, duration)
         IN <<[start |-> start, end |-> end]>> \o SliceFromNoMin(end, duration, chunk_ms)

\* slice_wav_to_chunks: the (start, end) of each chunk cut, in milliseconds
RECURSIVE SliceFrom(_, _, _)
SliceFrom(start, duration, chunk_ms) ==
    IF ~(start < duration) THEN <<>>
    ELSE LET end == Min(start + chunk_ms, duration)
         IN IF end - start < 100 THEN <<>>
            ELSE <<[start |-> start, end |-> end]>> \o SliceFrom(end, duration, chunk_ms)

slice_wav_to_chunks(duration, chunk_seconds) ==
    IF duration = 0 THEN <<>> ELSE SliceFrom(0, duration, chunk_seconds * 1000)

\* a gate that lets every caller through
CanAcquireAlways(s) == TRUE

\* Semaphore.acquire() blocks while no permit is left
CanAcquire(s) == s > 0

\* transcribe_wav_file's "\n\n".join(p for p in parts if p.strip())
JoinParts(acc) == Join(<<NL, NL>>, FilterNonBlank(acc))

\* the audio ffmpeg finds for thread t, in ms: ffmpeg -t caps a window segment
\* at CHUNK_SECONDS; a tail segment and an upload are not capped
WavDurations(t) ==
    {0, 30000} \cup
    (IF t = UploadThread \/ targs[t].duration_sec = NoneSec THEN {60500} ELSE {50})

\* the size in bytes of the WAV ffmpeg writes for that audio (-ac 1 -ar 16000,
\* 16-bit samples): a 44-byte header and 32 bytes per ms
WavSize(duration) == 44 + 32 * duration

\* run_ffprobe_duration of the thread's WAV: its duration, or 0.0 when ffprobe
\* fails or prints N/A
ProbedDurations(t) == {twav[t], 0}

-----------------------------------------------------------------------------
(* pipeline.py: build_and_extract_wav_chunk, step by step.  The workers'   *)
(* action W_Extract below is one call as a whole, its result only; here    *)
(* the calls of the live workers are followed through their temporary      *)
(* files.                                                                  *)

\* the file tempfile.NamedTemporaryFile(delete=False, suffix=...) created for
\* call t
TmpFile(t, suffix) == [call |-> t, suffix |-> suffix]

ExtractIdle ==
    /\ xpc = [t \in LiveThreads |-> "idle"]
    /\ tmp = {}
    /\ xret = [t \in LiveThreads |-> None]

\* full_stream_path = Path(tempfile.NamedTemporaryFile(delete=False,
\* suffix=".webm").name): the file is created
X_Begin(t) ==
    /\ xpc[t] = "idle"
    /\ tmp' = tmp \cup {TmpFile(t, ".webm")}
    /\ xpc' = [xpc EXCEPT ![t] = "build"]
    /\ UNCHANGED xret

\* the part files are appended to the stream; reading or writing may raise
X_Build(t, ok) ==
    /\ xpc[t] = "build"
    /\ xpc' = [xpc EXCEPT ![t] = IF ok THEN "wav" ELSE "finally"]
    /\ UNCHANGED <<tmp, xret>>

\* wav_chunk_path = Path(tempfile.NamedTemporaryFile(delete=False,
\* suffix=".wav").name): the file is created
X_Wav(t) ==
    /\ xpc[t] = "wav"
    /\ tmp' = tmp \cup {TmpFile(t, ".wav")}
    /\ xpc' = [xpc EXCEPT ![t] = "ffmpeg"]
    /\ UNCHANGED xret

\* subprocess.run(cmd, ..., check=True): ffmpeg returns 0, fails
\* (CalledProcessError) or cannot be run (another exception); both except
\* clauses print and return None
X_Ffmpeg(t, outcome) ==
    /\ xpc[t] = "ffmpeg"
    /\ xpc' = [xpc EXCEPT ![t] = IF outcome = "ok" THEN "check" ELSE "finally"]
    /\ UNCHANGED <<tmp, xret>>

\* if wav_chunk_path.exists() and st_size > 44: return it; else unlink it and
\* return None
X_Check(t, duration) ==
    /\ xpc[t] = "check"
    /\ IF WavSize(duration) > 44
       THEN /\ xret' = [xret EXCEPT ![t] = TmpFile(t, ".wav")]
            /\ UNCHANGED tmp
       ELSE /\ tmp' = tmp \ {TmpFile(t, ".wav")}
            /\ UNCHANGED xret
    /\ xpc' = [xpc EXCEPT ![t] = "finally"]

\* finally: full_stream_path.unlink(); the call returns
X_Finally(t) ==
    /\ xpc[t] = "finally"
    /\ tmp' = tmp \ {TmpFile(t, ".webm")}
    /\ xpc' = [xpc EXCEPT ![t] = "returned"]
    /\ UNCHANGED xret

-----------------------------------------------------------------------------
(* pipeline.py: worker threads *)

\* the thread's transcription is over with text txt: a live worker stores it
\* (process_wav_chunk_thread), the upload pipeline keeps it
Finish(t, txt) ==
    /\ tpc' = [tpc EXCEPT ![t] = "done"]
    /\ tchunks' = [tchunks EXCEPT ![t] = 0]
    /\ tacc' = [tacc EXCEPT ![t] = <<>>]
    /\ twav' = [twav EXCEPT ![t] = 0]
    /\ IF t \in LiveThreads
       THEN /\ parts' = add(parts, t, txt)
            /\ calls' = Append(calls, [k |-> t, v |-> txt])
       ELSE UNCHANGED <<parts, calls>>

\* _transcribe_single_chunk returned text for the current chunk
AfterChunk(t, text) ==
    LET acc == Append(tacc[t], text)
    IN IF tchunks[t] = 1
       THEN Finish(t, JoinParts(acc))
       ELSE /\ tchunks' = [tchunks EXCEPT ![t] = @ - 1]
            /\ tacc' = [tacc EXCEPT ![t] = acc]
            /\ tpc' = [tpc EXCEPT ![t] = "chunk"]
            /\ UNCHANGED <<parts, calls, twav>>

\* how building the stream and running ffmpeg ended: ffmpeg returned 0, ffmpeg
\* failed (CalledProcessError), something else raised
ExtractOutcomes == {"ok", "ffmpeg_error", "exception"}

\* extraction_and_transcription_thread: build_and_extract_wav_chunk reads the
\* part files of its snapshot (a missing one raises) and returns the WAV when
\* ffmpeg returned 0 and the file is larger than 44 bytes, and None
\* otherwise; with None the thread ends
W_Extract(t, outcome, duration) ==
    /\ t \in LiveThreads
    /\ tpc[t] = "extract"
    /\ Range(targs[t].part_files) \subseteq disk \/ outcome = "exception"
    /\ LET wav_chunk == outcome = "ok" /\ WavSize(duration) > 44
       IN /\ tpc' = [tpc EXCEPT ![t] = IF wav_chunk THEN "probe" ELSE "done"]
          /\ twav' = [twav EXCEPT ![t] = IF wav_chunk THEN duration ELSE 0]
    /\ UNCHANGED <<storeVars, ingestVars, orchVars, tchunks, tacc, sem>>

\* start_full_pipeline_in_thread
U_Start ==
    /\ tpc[UploadThread] = "idle"
    /\ tpc' = [tpc EXCEPT ![UploadThread] = "convert"]
    /\ UNCHANGED <<storeVars, ingestVars, orchVars, tchunks, tacc, twav, sem>>

\* full_meeting_pipeline: convert_to_wav, which raises when ffmpeg fails; a
\* WAV that does not exist or has size 0 ends the pipeline
U_Convert(ok, duration) ==
    /\ tpc[UploadThread] = "convert"
    /\ LET wav_path == ok /\ WavSize(duration) # 0
       IN /\ tpc' = [tpc EXCEPT ![UploadThread] = IF wav_path THEN "probe" ELSE "done"]
          /\ twav' = [twav EXCEPT ![UploadThread] = IF wav_path THEN duration ELSE 0]
    /\ UNCHANGED <<storeVars, ingestVars, orchVars, tchunks, tacc, sem>>

\* transcribe_wav_file: run_ffprobe_duration and slice_wav_to_chunks
T_Probe(t, duration) ==
    /\ tpc[t] = "probe"
    /\ LET chunks == slice_wav_to_chunks(duration, CHUNK_SECONDS)
       IN IF duration = 0 \/ chunks = <<>>
          THEN Finish(t, <<>>)
          ELSE /\ tchunks' = [tchunks EXCEPT ![t] = Len(chunks)]
               /\ tacc' = [tacc EXCEPT ![t] = <<>>]
               /\ tpc' = [tpc EXCEPT ![t] = "chunk"]
               /\ UNCHANGED <<parts, calls, twav>>
    /\ UNCHANGED <<lastRead, ingestVars, orchVars, sem>>

\* a size check made inside the with block
T_ChunkCheckInside(t, small) ==
    /\ tpc[t] = "chunk"
    /\ tpc' = [tpc EXCEPT ![t] = "acquire"]
    /\ UNCHANGED <<parts, calls, tchunks, tacc, twav>>
    /\ UNCHANGED <<lastRead, ingestVars, orchVars, sem>>

\* _transcribe_single_chunk: the size check before the gate
T_ChunkCheck(t, small) ==
    /\ tpc[t] = "chunk"
    /\ IF small
       THEN AfterChunk(t, <<>>)
       ELSE /\ tpc' = [tpc EXCEPT ![t] = "acquire"]
            /\ UNCHANGED <<parts, calls, tchunks, tacc, twav>>
    /\ UNCHANGED <<lastRead, ingestVars, orchVars, sem>>

\* _transcribe_single_chunk: with config.WHISPER_SEMAPHORE, entry
T_Acquire(t) ==
    /\ tpc[t] = "acquire"
    /\ CanAcquire(sem)
    /\ sem' = sem - 1
    /\ tpc' = [tpc EXCEPT ![t] = "whisper"]
    /\ UNCHANGED <<storeVars, ingestVars, orchVars, tchunks, tacc, twav>>

\* a gate that keeps the permit of a call that raised
ReleaseUnlessRaised(s, outcome) == IF outcome = "raise" THEN s ELSE s + 1

\* a gate released only by a call that produced text
ReleaseOnText(s, outcome) == IF outcome = "text" THEN s + 1 ELSE s

\* leaving the with block: Semaphore.release(), however the block was left
Release(s, outcome) == s + 1

WhisperOutcomes == {"text", "empty", "raise"}

\* _transcribe_single_chunk: whisper-cli ran; leaving the with block releases
\* the semaphore whatever happened.  An exception leaves transcribe_wav_file:
\* a live worker stores the error sentinel, the upload thread ends.
T_Whisper(t, outcome) ==
    /\ tpc[t] = "whisper"
    /\ sem' = Release(sem, outcome)
    /\ CASE outcome = "text" -> AfterChunk(t, WhisperText(t))
         [] outcome = "empty" -> AfterChunk(t, <<>>)
         [] OTHER -> Finish(t, Sentinel(t))
    /\ UNCHANGED <<lastRead, ingestVars, orchVars>>

-----------------------------------------------------------------------------
(* api.py: websocket_record, the ingestion side of a live session *)

\* data_queue.put(msg["bytes"])
IngestPut ==
    /\ ~recording_stopped
    /\ nput < MaxBlobs
    /\ data_queue' = Append(data_queue, nput + 1)
    /\ nput' = nput + 1
    /\ arrived' = Append(arrived, clock \div ChunkTicks)
    /\ UNCHANGED <<recording_stopped, storeVars, orchVars, threadVars>>

\* recording_stopped.set()
IngestStop ==
    /\ ~recording_stopped
    /\ recording_stopped' = TRUE
    /\ UNCHANGED <<data_queue, nput, arrived, storeVars, orchVars, threadVars>>

-----------------------------------------------------------------------------
(* pipeline.py: live_transcription_orchestrator *)

\* a dispatch that runs on the orchestrator's thread and so waits for the gate
DispatchAtGate(duration_sec) ==
    /\ CanAcquire(sem)
    /\ targs' = [targs EXCEPT ![chunk_index] =
                    [part_files |-> all_part_files,
                     start_sec |-> chunk_index * CHUNK_SECONDS,
                     duration_sec |-> duration_sec]]
    /\ tpc' = [tpc EXCEPT ![chunk_index] = "extract"]
    /\ processing_threads' = Append(processing_threads, chunk_index)

\* threading.Thread(target=extraction_and_transcription_thread, args=...).start()
\* and processing_threads.append(t)
Dispatch(duration_sec) ==
    /\ targs' = [targs EXCEPT ![chunk_index] =
                    [part_files |-> all_part_files,
                     start_sec |-> chunk_index * CHUNK_SECONDS,
                     duration_sec |-> duration_sec]]
    /\ tpc' = [tpc EXCEPT ![chunk_index] = "extract"]
    /\ processing_threads' = Append(processing_threads, chunk_index)

\* blob = data_queue.get(timeout=0.5); the part file is written
OrchGetBlob ==
    /\ opc = "get"
    /\ data_queue # <<>>
    /\ all_part_files' = Append(all_part_files, Head(data_queue))
    /\ disk' = disk \cup {Head(data_queue)}
    /\ data_queue' = Tail(data_queue)
    /\ opc' = "check"
    /\ UNCHANGED <<recording_stopped, nput, arrived, storeVars, threadVars, chunk_index,
                   chunk_start_time, processing_threads, targs, transcript, folder,
                   meetings, olog, clock>>

\* blob = data_queue.get(timeout=0.5), and part_path.write_bytes(blob) raises:
\* before the file is created (open fails) or after (the write fails); the
\* path is not appended to all_part_files
OrchGetBlobRaise(created) ==
    /\ opc = "get"
    /\ data_queue # <<>>
    /\ disk' = IF created THEN disk \cup {Head(data_queue)} ELSE disk
    /\ data_queue' = Tail(data_queue)
    /\ olog' = Append(olog, "write raised")
    /\ opc' = "except"
    /\ UNCHANGED <<recording_stopped, nput, arrived, storeVars, threadVars, all_part_files,
                   chunk_index, chunk_start_time, processing_threads, targs, transcript,
                   folder, meetings, clock>>

\* except queue.Empty: the poll timed out after dt ticks
OrchGetEmpty(dt) ==
    /\ opc = "get"
    /\ data_queue = <<>>
    /\ clock + dt <= MaxClock
    /\ clock' = clock + dt
    /\ opc' = "check"
    /\ UNCHANGED <<ingestVars, storeVars, threadVars, partVars, chunk_index,
                   chunk_start_time, processing_threads, targs, transcript, folder,
                   meetings, olog>>

\* a timer that fires at exactly CHUNK_SECONDS
TimerFiredAtLeast == clock - chunk_start_time >= ChunkTicks

\* now - chunk_start_time > config.CHUNK_SECONDS
TimerFired == clock - chunk_start_time > ChunkTicks

\* a rollover that keeps the segment index
OrchRolloverSameIndex(fired) ==
    /\ opc = "check"
    /\ fired /\ ~recording_stopped
    /\ chunk_index < MaxChunkIndex
    /\ IF all_part_files # <<>>
       THEN Dispatch(CHUNK_SECONDS)
       ELSE UNCHANGED <<targs, tpc, processing_threads>>
    /\ chunk_index' = chunk_index
    /\ chunk_start_time' = clock
    /\ opc' = "get"
    /\ UNCHANGED <<ingestVars, storeVars, tchunks, tacc, twav, sem, partVars,
                   transcript, folder, meetings, olog, clock>>

\* a rollover that does not restart the window's timer
OrchRolloverKeepStart(fired) ==
    /\ opc = "check"
    /\ fired /\ ~recording_stopped
    /\ chunk_index < MaxChunkIndex
    /\ IF all_part_files # <<>>
       THEN Dispatch(CHUNK_SECONDS)
       ELSE UNCHANGED <<targs, tpc, processing_threads>>
    /\ chunk_index' = chunk_index + 1
    /\ chunk_start_time' = chunk_start_time
    /\ opc' = "get"
    /\ UNCHANGED <<ingestVars, storeVars, tchunks, tacc, twav, sem, partVars,
                   transcript, folder, meetings, olog, clock>>

\* a rollover that waits for the first increment
OrchRolloverIfBytes(fired) ==
    /\ opc = "check"
    /\ fired /\ ~recording_stopped
    /\ chunk_index < MaxChunkIndex
    /\ all_part_files # <<>>
    /\ Dispatch(CHUNK_SECONDS)
    /\ chunk_index' = chunk_index + 1
    /\ chunk_start_time' = clock
    /\ opc' = "get"
    /\ UNCHANGED <<ingestVars, storeVars, tchunks, tacc, twav, sem, partVars,
                   transcript, folder, meetings, olog, clock>>

\* if (timer) and not is_stopped: cut the window
OrchRollover(fired) ==
    /\ opc = "check"
    /\ fired /\ ~recording_stopped
    /\ chunk_index < MaxChunkIndex
    /\ IF all_part_files # <<>>
       THEN Dispatch(CHUNK_SECONDS)
       ELSE UNCHANGED <<targs, tpc, processing_threads>>
    /\ chunk_index' = chunk_index + 1
    /\ chunk_start_time' = clock
    /\ opc' = "get"
    /\ UNCHANGED <<ingestVars, storeVars, tchunks, tacc, twav, sem, partVars,
                   transcript, folder, meetings, olog, clock>>

\* elif is_stopped: break
OrchBreak(fired) ==
    /\ opc = "check"
    /\ ~(fired /\ ~recording_stopped)
    /\ recording_stopped
    /\ opc' = "tail"
    /\ UNCHANGED <<ingestVars, storeVars, threadVars, partVars, chunk_index,
                   chunk_start_time, processing_threads, targs, transcript, folder,
                   meetings, olog, clock>>

\* neither: next iteration
OrchContinue(fired) ==
    /\ opc = "check"
    /\ ~(fired /\ ~recording_stopped)
    /\ ~recording_stopped
    /\ opc' = "get"
    /\ UNCHANGED <<ingestVars, storeVars, threadVars, partVars, chunk_index,
                   chunk_start_time, processing_threads, targs, transcript, folder,
                   meetings, olog, clock>>

\* the final segment, duration_sec=None
\* a final segment cut like a full window
OrchTailBounded ==
    /\ opc = "tail"
    /\ IF all_part_files # <<>>
       THEN Dispatch(CHUNK_SECONDS)
       ELSE UNCHANGED <<targs, tpc, processing_threads>>
    /\ opc' = "join"
    /\ UNCHANGED <<ingestVars, storeVars, tchunks, tacc, twav, sem, partVars,
                   chunk_index, chunk_start_time, transcript, folder, meetings, olog,
                   clock>>

OrchTail ==
    /\ opc = "tail"
    /\ IF all_part_files # <<>>
       THEN Dispatch(NoneSec)
       ELSE UNCHANGED <<targs, tpc, processing_threads>>
    /\ opc' = "join"
    /\ UNCHANGED <<ingestVars, storeVars, tchunks, tacc, twav, sem, partVars,
                   chunk_index, chunk_start_time, transcript, folder, meetings, olog,
                   clock>>

\* a join that waits for the first thread only
JoinedFirst(threads) == IF threads = <<>> THEN TRUE ELSE tpc[threads[1]] = "done"

\* for t in processing_threads: t.join() has returned for every t
Joined(threads) == \A p \in 1..Len(threads) : tpc[threads[p]] = "done"

OrchJoin ==
    /\ opc = "join"
    /\ Joined(processing_threads)
    /\ opc' = "read"
    /\ UNCHANGED <<ingestVars, storeVars, threadVars, partVars, chunk_index,
                   chunk_start_time, processing_threads, targs, transcript, folder,
                   meetings, olog, clock>>

\* a check that never finds the transcript empty
IsEmptyNever(t) == FALSE

\* not transcript.strip()
IsEmptyTranscript(t) == ~Truthy(Strip(t))

\* transcript = transcript_store.get_full_transcript(); empty: return
OrchRead ==
    /\ opc = "read"
    /\ transcript' = get_full_transcript(parts)
    /\ opc' = IF IsEmptyTranscript(transcript') THEN "cleanup" ELSE "analyze"
    /\ olog' = Append(olog, "read")
    /\ UNCHANGED <<ingestVars, storeVars, threadVars, partVars, chunk_index,
                   chunk_start_time, processing_threads, targs, folder, meetings, clock>>

\* an analysis that is tried again when it raised
OrchAnalyzeRetry(ok) ==
    /\ opc = "analyze"
    /\ olog' = IF ok THEN Append(olog, "analyze")
               ELSE olog \o <<"analyze", "analyze raised">>
    /\ opc' = IF ok THEN "save" ELSE "analyze"
    /\ UNCHANGED <<ingestVars, storeVars, threadVars, partVars, chunk_index,
                   chunk_start_time, processing_threads, targs, transcript, folder,
                   meetings, clock>>

\* analysis = analyze_with_gpt(...), which may raise
OrchAnalyze(ok) ==
    /\ opc = "analyze"
    /\ olog' = IF ok THEN Append(olog, "analyze")
               ELSE olog \o <<"analyze", "analyze raised">>
    /\ opc' = IF ok THEN "save" ELSE "except"
    /\ UNCHANGED <<ingestVars, storeVars, threadVars, partVars, chunk_index,
                   chunk_start_time, processing_threads, targs, transcript, folder,
                   meetings, clock>>

\* folder = save_meeting_outputs(meeting_id, meeting_name, transcript, analysis)
OrchSave(ok) ==
    /\ opc = "save"
    /\ IF ok
       THEN /\ folder' = "meeting"
            /\ meetings' = meetings \cup
                   {[name |-> "meeting", transcript |-> transcript, analysis |-> "analysis"]}
            /\ olog' = Append(olog, "save")
            /\ opc' = "email"
       ELSE /\ opc' = "except"
            /\ olog' = Append(olog, "save raised")
            /\ UNCHANGED <<folder, meetings>>
    /\ UNCHANGED <<ingestVars, storeVars, threadVars, partVars, chunk_index,
                   chunk_start_time, processing_threads, targs, transcript, clock>>

\* send_analysis_via_email(...); an exception is caught and printed
OrchEmail ==
    /\ opc = "email"
    /\ olog' = Append(olog, "email")
    /\ opc' = "cleanup"
    /\ UNCHANGED <<ingestVars, storeVars, threadVars, partVars, chunk_index,
                   chunk_start_time, processing_threads, targs, transcript, folder,
                   meetings, clock>>

\* except Exception: save whatever transcript the store holds as FAILED_<name>
OrchExcept(ok) ==
    /\ opc = "except"
    /\ transcript' = get_full_transcript(parts)
    /\ IF Truthy(transcript') /\ ok
       THEN /\ folder' = "FAILED_meeting"
            /\ meetings' = meetings \cup
                   {[name |-> "FAILED_meeting", transcript |-> transcript',
                     analysis |-> "ANALYSIS FAILED"]}
       ELSE UNCHANGED <<folder, meetings>>
    /\ olog' = Append(olog, "except")
    /\ opc' = "cleanup"
    /\ UNCHANGED <<ingestVars, storeVars, threadVars, partVars, chunk_index,
                   chunk_start_time, processing_threads, targs, clock>>

\* finally: unlink the part files; if folder: cleanup_meeting_folder(folder)
OrchCleanup ==
    /\ opc = "cleanup"
    /\ meetings' = IF folder # None THEN {m \in meetings : m.name # folder} ELSE meetings
    /\ disk' = disk \ Range(all_part_files)
    /\ olog' = Append(olog, "cleanup")
    /\ opc' = "done"
    /\ UNCHANGED <<ingestVars, storeVars, threadVars, all_part_files, chunk_index,
                   chunk_start_time, processing_threads, targs, transcript, folder,
                   clock>>

-----------------------------------------------------------------------------
(* tokens.py *)

Clients == {"c1"}
Scopes == {"ws", "upload"}
SessionIds == {"s1"}
JTIs == 1..MaxTokens

\* int(time.time())
IntTime(t) == t \div TicksPerSecond

\* uuid.uuid4().hex for the n-th token: a fresh id, never one a caller gives
FreshSession(n) == <<"u1", "u2", "u3", "u4", "u5", "u6">>[n]

\* hmac.new(key, payload_b64, sha256).digest()
Hmac(key, payload) == [key |-> key, msg |-> payload]

\* _sign(payload)
Sign(payload) == [payload |-> payload, sig |-> Hmac("SIGNING_KEY", payload)]

\* a token signed with a key that is not the server's
Forge(payload) == [payload |-> payload, sig |-> Hmac("other key", payload)]

\* _verify: hmac.compare_digest(expected_sig, provided_sig)
SignatureOk(token) == token.sig = Hmac("SIGNING_KEY", token.payload)

\* a bucket that is never pruned
PopNothing(dq, cutoff) == dq

\* RateLimiter.allow: the bucket after the expired timestamps are popped
RECURSIVE PopExpired(_, _)
PopExpired(dq, cutoff) ==
    IF dq # <<>> /\ Head(dq) < cutoff THEN PopExpired(Tail(dq), cutoff) ELSE dq

\* a limiter that admits every call
allow_unlimited(dq, max_calls, window_seconds, now) ==
    [ok |-> TRUE,
     dq |-> Append(PopExpired(dq, now - window_seconds * TicksPerSecond), now)]

\* a limiter that also records the calls it refuses
allow_recording_refused(dq, max_calls, window_seconds, now) ==
    LET cutoff == now - window_seconds * TicksPerSecond
        kept == PopExpired(dq, cutoff)
    IN [ok |-> Len(kept) < max_calls, dq |-> Append(kept, now)]

\* RateLimiter.allow(key), the body under self.lock: <<allowed, bucket after>>
allow(dq, max_calls, window_seconds, now) ==
    LET cutoff == now - window_seconds * TicksPerSecond
        kept == PopExpired(dq, cutoff)
    IN IF Len(kept) >= max_calls
       THEN [ok |-> FALSE, dq |-> kept]
       ELSE [ok |-> TRUE, dq |-> Append(kept, now)]

Registered(act, jti) == {p \in act : p.jti = jti}

\* TokenRegistry.add
registry_add(act, jti, payload) == (act \ Registered(act, jti)) \cup {payload}

\* a registry check that finds every jti active
is_active_always(act, jti, now) == TRUE

\* TokenRegistry.is_active, the value returned
is_active(act, jti, now) ==
    /\ Registered(act, jti) # {}
    /\ \A p \in Registered(act, jti) : ~(p.exp < IntTime(now))

\* a registry check that pops the entry it finds
after_is_active_pop(act, jti, now) == act \ Registered(act, jti)

\* a registry check that registers the token it is asked about
after_is_active_readd(act, jti, now) ==
    act \cup {tok.payload : tok \in {x \in Range(issued) : x.payload.jti = jti}}

\* TokenRegistry.is_active, the registry it leaves: an expired entry is popped
after_is_active(act, jti, now) ==
    act \ {p \in Registered(act, jti) : p.exp < IntTime(now)}

\* a revocation that removes some entry when the named one is not there
revoke_jti_any(act, jti) ==
    IF Registered(act, jti) # {} THEN act \ Registered(act, jti)
    ELSE IF act = {} THEN act
    ELSE act \ {CHOOSE p \in act : TRUE}

\* a revocation that leaves the registry alone
revoke_jti_noop(act, jti) == act

\* a revocation that spares the tokens of scope "ws"
revoke_jti_unless_ws(act, jti) == act \ {p \in Registered(act, jti) : p.scope # "ws"}

\* TokenRegistry.revoke_jti
revoke_jti(act, jti) == act \ Registered(act, jti)

\* TokenRegistry.revoke_session
registry_revoke_session(act, session_id) == {p \in act : p.session_id # session_id}

\* issue_token(scope, session_id, client_id); session_id None when absent
issue_token(scope, session_id, client_id) ==
    LET lim == allow(issue_buckets[client_id], TOKEN_ISSUE_LIMIT,
                     TOKEN_ISSUE_WINDOW_SECONDS, clock)
        now == IntTime(clock)
        jti == Len(issued) + 1
        payload == [jti |-> jti,
                    session_id |-> IF session_id # None THEN session_id
                                   ELSE FreshSession(jti),
                    scope |-> scope,
                    aud |-> "smallpie",
                    iat |-> now,
                    exp |-> now + TOKEN_TTL_SECONDS]
    IN /\ Len(issued) < MaxTokens
       /\ issue_buckets' = [issue_buckets EXCEPT ![client_id] = lim.dq]
       /\ IF ~lim.ok
          THEN /\ tlast' = [op |-> "issue", jti |-> 0,
                            res |-> "Rate limit exceeded for token issue"]
               /\ UNCHANGED <<active, issued, admitted>>
          ELSE /\ active' = registry_add(active, jti, payload)
               /\ issued' = Append(issued, Sign(payload))
               /\ admitted' = [admitted EXCEPT ![client_id] = Append(@, clock)]
               /\ tlast' = [op |-> "issue", jti |-> jti, res |-> "ok"]
       /\ UNCHANGED <<verify_buckets, okCount, revoked, clock>>

\* checks that leave the scope out
ValidateResultAnyScope(token, expected_scope, now, now2) ==
    LET payload == token.payload
    IN IF ~SignatureOk(token) THEN "Invalid token signature"
       ELSE IF payload.aud # "smallpie" THEN "Invalid audience"
       ELSE IF payload.exp < IntTime(now) THEN "Token expired"
       ELSE IF ~is_active(active, payload.jti, now2) THEN "Token inactive"
       ELSE "ok"

\* checks that look at the expiry before the signature
ValidateResultExpiryFirst(token, expected_scope, now, now2) ==
    LET payload == token.payload
    IN IF payload.exp < IntTime(now) THEN "Token expired"
       ELSE IF ~SignatureOk(token) THEN "Invalid token signature"
       ELSE IF payload.aud # "smallpie" THEN "Invalid audience"
       ELSE IF payload.scope # expected_scope THEN "Invalid scope"
       ELSE IF ~is_active(active, payload.jti, now2) THEN "Token inactive"
       ELSE "ok"

\* validate_token's checks after the rate limit, in the code's order; now is
\* int(time.time()) at line 147, now2 the time is_active reads
ValidateResult(token, expected_scope, now, now2) ==
    LET payload == token.payload
    IN IF ~SignatureOk(token) THEN "Invalid token signature"
       ELSE IF payload.aud # "smallpie" THEN "Invalid audience"
       ELSE IF payload.scope # expected_scope THEN "Invalid scope"
       ELSE IF payload.exp < IntTime(now) THEN "Token expired"
       ELSE IF ~is_active(active, payload.jti, now2) THEN "Token inactive"
       ELSE "ok"

\* a validation that deactivates the token it refuses
validate_token_consuming(token, expected_scope, client_id, dt) ==
    LET lim == allow(verify_buckets[client_id], TOKEN_VERIFY_LIMIT,
                     TOKEN_VERIFY_WINDOW_SECONDS, clock)
        res == ValidateResult(token, expected_scope, clock, clock + dt)
        jti == token.payload.jti
    IN /\ verify_buckets' = [verify_buckets EXCEPT ![client_id] = lim.dq]
       /\ IF ~lim.ok
          THEN /\ tlast' = [op |-> "validate", jti |-> jti,
                            res |-> "Rate limit exceeded"]
               /\ UNCHANGED <<active, okCount, clock>>
          ELSE /\ clock + dt <= TokMaxClock
               /\ clock' = clock + dt
               /\ active' = IF res = "ok" THEN active ELSE revoke_jti(active, jti)
               /\ okCount' = IF res = "ok"
                             THEN [okCount EXCEPT ![jti] = Min(@ + 1, OkCap)]
                             ELSE okCount
               /\ tlast' = [op |-> "validate", jti |-> jti, res |-> res]
       /\ UNCHANGED <<issue_buckets, issued, revoked, admitted>>

\* validate_token(token, expected_scope, client_id); dt ticks pass between the
\* function's own reading of the time and is_active's
validate_token(token, expected_scope, client_id, dt) ==
    LET lim == allow(verify_buckets[client_id], TOKEN_VERIFY_LIMIT,
                     TOKEN_VERIFY_WINDOW_SECONDS, clock)
        res == ValidateResult(token, expected_scope, clock, clock + dt)
        reached == SignatureOk(token) /\ token.payload.aud = "smallpie"
                   /\ token.payload.scope = expected_scope
                   /\ ~(token.payload.exp < IntTime(clock))
        jti == token.payload.jti
    IN /\ verify_buckets' = [verify_buckets EXCEPT ![client_id] = lim.dq]
       /\ IF ~lim.ok
          THEN /\ tlast' = [op |-> "validate", jti |-> jti,
                            res |-> "Rate limit exceeded"]
               /\ UNCHANGED <<active, okCount, clock>>
          ELSE /\ clock + dt <= TokMaxClock
               /\ clock' = clock + dt
               /\ active' = IF reached THEN after_is_active(active, jti, clock + dt)
                            ELSE active
               /\ okCount' = IF res = "ok"
                             THEN [okCount EXCEPT ![jti] = Min(@ + 1, OkCap)]
                             ELSE okCount
               /\ tlast' = [op |-> "validate", jti |-> jti, res |-> res]
       /\ UNCHANGED <<issue_buckets, issued, revoked, admitted>>

\* revoke_token_by_jti(jti)
revoke_token_by_jti(jti) ==
    /\ active' = revoke_jti(active, jti)
    /\ revoked' = revoked \cup {jti}
    /\ UNCHANGED <<issue_buckets, verify_buckets, issued, tlast, okCount, admitted,
                   clock>>

\* revoke_session(session_id)
revoke_session(session_id) ==
    /\ active' = registry_revoke_session(active, session_id)
    /\ revoked' = revoked \cup {tok.payload.jti : tok \in
                                  {x \in Range(issued) : x.payload.session_id = session_id}}
    /\ UNCHANGED <<issue_buckets, verify_buckets, issued, tlast, okCount, admitted,
                   clock>>

\* time passes
TokTick ==
    /\ clock < TokMaxClock
    /\ clock' = clock + 1
    /\ UNCHANGED tokVars

TokVarsInit ==
    /\ active = {}
    /\ issue_buckets = [c \in Clients |-> <<>>]
    /\ verify_buckets = [c \in Clients |-> <<>>]
    /\ issued = <<>>
    /\ tlast = [op |-> "none", jti |-> 0, res |-> ""]
    /\ okCount = [j \in JTIs |-> 0]
    /\ revoked = {}
    /\ admitted = [c \in Clients |-> <<>>]

-----------------------------------------------------------------------------
(* One RateLimiter called by several threads *)

\* buckets of different keys are separate deques: one key is followed
LimKeys == {"k1"}
LimCallers == 1..LimThreads

LimVarsInit ==
    /\ buckets = [k \in LimKeys |-> <<>>]
    /\ lpc = [t \in LimCallers |-> "idle"]
    /\ lnow = [t \in LimCallers |-> 0]
    /\ lkey = [t \in LimCallers |-> "k1"]

\* allow(key): now = time.time(), read before the lock is taken
L_Now(t, key) ==
    /\ lpc[t] = "idle"
    /\ lpc' = [lpc EXCEPT ![t] = "lock"]
    /\ lnow' = [lnow EXCEPT ![t] = clock]
    /\ lkey' = [lkey EXCEPT ![t] = key]
    /\ UNCHANGED <<buckets, clock>>

\* allow(key): with self.lock, the whole body in one step
L_Locked(t) ==
    /\ lpc[t] = "lock"
    /\ buckets' = [buckets EXCEPT ![lkey[t]] =
                       allow(@, LimMaxCalls, LimWindow, lnow[t]).dq]
    /\ lpc' = [lpc EXCEPT ![t] = "idle"]
    /\ lnow' = [lnow EXCEPT ![t] = 0]
    /\ lkey' = [lkey EXCEPT ![t] = "k1"]
    /\ UNCHANGED clock

\* time passes
L_Tick ==
    /\ clock < LimMaxClock
    /\ clock' = clock + 1
    /\ UNCHANGED limVars

\* the ids a caller can name: a uuid is known only once its token is issued
IssuedJTIs == {tok.payload.jti : tok \in Range(issued)}
IssuedSessions == {tok.payload.session_id : tok \in Range(issued)}

\* the tokens a client can present: those issued, and forgeries of them
Presentable == Range(issued) \cup {Forge(tok.payload) : tok \in Range(issued)}

\* a token the server's key signs for another audience (a service that
\* shares the key)
ForAudience(payload, aud) == Sign([payload EXCEPT !.aud = aud])

\* the tokens presented to validate_token: those a client can present, and
\* tokens signed for another audience
Presented == Presentable \cup {ForAudience(tok.payload, "other") : tok \in Range(issued)}

-----------------------------------------------------------------------------
(* api.py: the request surface.  A handler runs on the event loop and is   *)
(* left only at an await: from a request's arrival to its admission or      *)
(* rejection no other handler runs, so that part is one step.               *)

\* a header or query value that is no token of this service
Text(s) == [text |-> s]

\* no token given (None or the empty string)
NoToken == Text("")

\* token_payload = None
NonePayload == [none |-> "None"]

IsSessionToken(token) == "payload" \in DOMAIN token

\* config.AUTH_ENABLED = bool(ACCESS_TOKEN)
AUTH_ENABLED == config.ACCESS_TOKEN # ""

\* auth.verify_ws_token(token): TRUE when the connection is accepted
verify_ws_token(token) ==
    IF ~AUTH_ENABLED THEN TRUE
    ELSE IF token = NoToken THEN FALSE
    ELSE IF IsSessionToken(token) THEN FALSE
    ELSE token.text = config.ACCESS_TOKEN

\* auth.verify_bearer_token(authorization) for "Bearer <token>" or no header:
\* TRUE when it returns, FALSE when it raises 401
verify_bearer_token(token) ==
    IF ~AUTH_ENABLED THEN TRUE
    ELSE IF token = NoToken THEN FALSE
    ELSE IF IsSessionToken(token) THEN FALSE
    ELSE token.text = config.ACCESS_TOKEN

\* a scope check that lets every scope through
ScopeAny(scope) == TRUE

\* issue_session_token: scope in {"ws", "upload"}
ScopeRecognized(scope) == scope \in Scopes

\* issue_session_token, the handler of POST /api/token; authorization is the
\* header's words (none when absent), bootstrap_header the x-bootstrap-token
issue_session_token(authorization, bootstrap_header, scope, session_id, client_id) ==
    LET supplied == IF authorization # <<>> THEN authorization[2] ELSE bootstrap_header
        rejection ==
            IF config.BOOTSTRAP_SECRET = "" THEN "Token issuer not configured"
            ELSE IF authorization = <<>> /\ bootstrap_header = ""
                 THEN "Missing bootstrap token"
            ELSE IF authorization # <<>> /\ authorization[1] # "bearer"
                 THEN "Missing bootstrap token"
            ELSE IF authorization # <<>> /\ Len(authorization) < 2
                 THEN "Missing bootstrap token"
            ELSE IF supplied # config.BOOTSTRAP_SECRET THEN "Invalid bootstrap token"
            ELSE IF ~ScopeRecognized(scope) THEN "Invalid scope"
            ELSE "none"
    IN /\ IF rejection # "none"
          THEN /\ hlast' = [op |-> "token", res |-> rejection, jti |-> 0]
               /\ UNCHANGED <<tokState, clock>>
          ELSE /\ issue_token(scope, session_id, client_id)
               /\ hlast' = [op |-> "token", res |-> tlast'.res, jti |-> tlast'.jti]
       /\ UNCHANGED <<config, nreq, open, started>>

\* validate_token(token, expected_scope, client_id) as the handlers call it:
\* the outcome, or "Invalid token format" from _verify for a string that is
\* not a token of this service
HandlerValidation(token, expected_scope, client_id) ==
    IF ~allow(verify_buckets[client_id], TOKEN_VERIFY_LIMIT,
              TOKEN_VERIFY_WINDOW_SECONDS, clock).ok
    THEN "Rate limit exceeded"
    ELSE IF ~IsSessionToken(token) THEN "Invalid token format"
    ELSE ValidateResult(token, expected_scope, clock, clock)

\* the registry after that validate_token: is_active, when the checks before
\* it passed, pops an expired entry
RegistryAfterValidation(token, expected_scope, client_id) ==
    IF /\ IsSessionToken(token)
       /\ HandlerValidation(token, expected_scope, client_id)
              \in {"ok", "Token inactive"}
    THEN after_is_active(active, token.payload.jti, clock)
    ELSE active

\* the legacy static token check: verify_ws_token, verify_bearer_token
LegacyAccepts(kind, token) ==
    IF kind = "ws" THEN verify_ws_token(token) ELSE verify_bearer_token(token)

\* websocket_record (?token=) and upload_meeting_file (Authorization: Bearer),
\* from the request's arrival to its admission or rejection: a token given goes
\* to validate_token with the expected scope "ws" or "upload"; when that
\* returns, revoke_token_by_jti(token_payload["jti"]); when it raises or no
\* token was given, the legacy static token check decides (close(1008), 401)
H_Admit(kind, token, client_host) ==
    LET res == HandlerValidation(token, kind, client_host)
        validated == token # NoToken /\ res = "ok"
        jti == IF IsSessionToken(token) THEN token.payload.jti ELSE 0
        after == RegistryAfterValidation(token, kind, client_host)
    IN /\ nreq < MaxRequests
       /\ nreq' = nreq + 1
       /\ IF token = NoToken
          THEN UNCHANGED <<verify_buckets, tlast, active, okCount, revoked>>
          ELSE /\ verify_buckets' =
                     [verify_buckets EXCEPT ![client_host] =
                         allow(@, TOKEN_VERIFY_LIMIT, TOKEN_VERIFY_WINDOW_SECONDS,
                               clock).dq]
               /\ tlast' = [op |-> "validate", jti |-> jti, res |-> res]
               /\ active' = IF validated THEN revoke_jti(after, jti) ELSE after
               /\ okCount' = IF validated
                             THEN [okCount EXCEPT ![jti] = Min(@ + 1, OkCap)]
                             ELSE okCount
               /\ revoked' = IF validated THEN revoked \cup {jti} ELSE revoked
       /\ IF validated
          THEN open' = open \cup {[id |-> nreq + 1, kind |-> kind, presented |-> token,
                                   token_payload |-> token.payload,
                                   orchestrator |-> FALSE]}
          ELSE IF LegacyAccepts(kind, token)
          THEN open' = open \cup {[id |-> nreq + 1, kind |-> kind, presented |-> token,
                                   token_payload |-> NonePayload,
                                   orchestrator |-> FALSE]}
          ELSE open' = open
       /\ UNCHANGED <<issue_buckets, issued, admitted, clock, config, started, hlast>>

\* if token_payload: revoke_session(token_payload["session_id"])
RevokeSessionOf(s) ==
    IF s.token_payload # NonePayload
    THEN revoke_session(s.token_payload.session_id)
    ELSE UNCHANGED <<tokState, clock>>

\* websocket_record: the first message arrived.  A disconnect returns through
\* the finally block; otherwise the orchestrator thread is started
WsFirstMessage(s, disconnect) ==
    /\ s \in open /\ s.kind = "ws" /\ ~s.orchestrator
    /\ IF disconnect
       THEN /\ RevokeSessionOf(s)
            /\ open' = open \ {s}
            /\ UNCHANGED started
       ELSE /\ open' = (open \ {s}) \cup {[s EXCEPT !.orchestrator = TRUE]}
            /\ started' = started \cup {[s EXCEPT !.orchestrator = TRUE]}
            /\ UNCHANGED <<tokState, clock>>
    /\ UNCHANGED <<config, nreq, hlast>>

\* websocket_record: the receiving loop is left; finally: revoke_session and
\* recording_stopped.set()
WsEnd(s) ==
    /\ s \in open /\ s.kind = "ws" /\ s.orchestrator
    /\ RevokeSessionOf(s)
    /\ open' = open \ {s}
    /\ UNCHANGED <<config, nreq, started, hlast>>

\* upload_meeting_file: the file is stored, start_full_pipeline_in_thread,
\* revoke_session; storing the file may raise
UploadStart(s, ok) ==
    /\ s \in open /\ s.kind = "upload"
    /\ open' = open \ {s}
    /\ IF ok
       THEN /\ started' = started \cup {s}
            /\ RevokeSessionOf(s)
       ELSE UNCHANGED <<started, tokState, clock>>
    /\ UNCHANGED <<config, nreq, hlast>>

\* time passes between requests, a second at a time
ApiTick ==
    /\ clock + TicksPerSecond <= TokMaxClock
    /\ clock' = clock + TicksPerSecond
    /\ UNCHANGED tokVars

\* no request yet; the configuration of a server with no static access token
\* and no bootstrap secret (both environment variables unset)
ApiIdle ==
    /\ config = [ACCESS_TOKEN |-> "", BOOTSTRAP_SECRET |-> ""]
    /\ nreq = 0
    /\ open = {}
    /\ started = {}
    /\ hlast = [op |-> "none", res |-> "", jti |-> 0]

-----------------------------------------------------------------------------
(* Specifications of a live session *)

LiveVarsInit ==
    /\ data_queue = <<>>
    /\ recording_stopped = FALSE
    /\ nput = 0
    /\ arrived = <<>>
    /\ all_part_files = <<>>
    /\ disk = {}
    /\ chunk_index = 0
    /\ chunk_start_time = 0
    /\ processing_threads = <<>>
    /\ targs = [t \in Threads |-> NoArgs]
    /\ transcript = <<>>
    /\ folder = None
    /\ meetings = {}
    /\ olog = <<>>
    /\ clock = 0
    /\ tpc = [t \in Threads |-> "idle"]
    /\ tchunks = [t \in Threads |-> 0]
    /\ tacc = [t \in Threads |-> <<>>]
    /\ twav = [t \in Threads |-> 0]
    /\ sem = WHISPER_PERMITS

\* no live session
LiveIdle == LiveVarsInit /\ opc = "off"

\* no get_full_transcript() by a store client yet
NoRead == [txt |-> <<>>, n |-> 0 - 1]

\* websocket_record has started the orchestrator thread
Init ==
    /\ LiveVarsInit
    /\ opc = "get"
    /\ parts = <<>>
    /\ calls = <<>>
    /\ lastRead = NoRead
    /\ TokVarsInit
    /\ LimVarsInit
    /\ ExtractIdle
    /\ ApiIdle

Ingest ==
    \/ IngestPut /\ UNCHANGED tokVars
    \/ IngestStop /\ UNCHANGED tokVars

Worker ==
    \/ \E t \in LiveThreads, outcome \in ExtractOutcomes :
          \E duration \in WavDurations(t) :
             W_Extract(t, outcome, duration) /\ UNCHANGED tokVars
    \/ U_Start /\ UNCHANGED tokVars
    \/ \E ok \in BOOLEAN, duration \in WavDurations(UploadThread) :
          U_Convert(ok, duration) /\ UNCHANGED tokVars
    \/ \E t \in Threads : \E duration \in ProbedDurations(t) :
          T_Probe(t, duration) /\ UNCHANGED tokVars
    \/ \E t \in Threads, small \in BOOLEAN : T_ChunkCheck(t, small) /\ UNCHANGED tokVars
    \/ \E t \in Threads : T_Acquire(t) /\ UNCHANGED tokVars
    \/ \E t \in Threads, outcome \in WhisperOutcomes :
          T_Whisper(t, outcome) /\ UNCHANGED tokVars

Finalize ==
    \/ OrchJoin /\ UNCHANGED tokVars
    \/ OrchRead /\ UNCHANGED tokVars
    \/ \E ok \in BOOLEAN : OrchAnalyze(ok) /\ UNCHANGED tokVars
    \/ \E ok \in BOOLEAN : OrchSave(ok) /\ UNCHANGED tokVars
    \/ OrchEmail /\ UNCHANGED tokVars
    \/ \E ok \in BOOLEAN : OrchExcept(ok) /\ UNCHANGED tokVars
    \/ OrchCleanup /\ UNCHANGED tokVars

\* the part of the collecting loop that does not look at the time
Collect ==
    \/ OrchGetBlob /\ UNCHANGED tokVars
    \/ \E created \in BOOLEAN : OrchGetBlobRaise(created) /\ UNCHANGED tokVars
    \/ OrchTail /\ UNCHANGED tokVars

\* The wall clock left open: at every check the window timer may or may not
\* have expired, at most MaxRollovers times.
MayFire(fired) == fired => chunk_index < MaxRollovers

Next ==
    \/ Ingest
    \/ Collect
    \/ OrchGetEmpty(0) /\ UNCHANGED tokVars
    \/ \E fired \in BOOLEAN : MayFire(fired) /\ OrchRollover(fired) /\ UNCHANGED tokVars
    \/ \E fired \in BOOLEAN : MayFire(fired) /\ OrchBreak(fired) /\ UNCHANGED tokVars
    \/ \E fired \in BOOLEAN : MayFire(fired) /\ OrchContinue(fired) /\ UNCHANGED tokVars
    \/ Worker
    \/ Finalize

Spec == Init /\ [][Next]_vars

\* A step of the orchestrator thread
OrchStep ==
    \/ OrchGetBlob
    \/ \E created \in BOOLEAN : OrchGetBlobRaise(created)
    \/ OrchGetEmpty(0)
    \/ \E fired \in BOOLEAN :
          MayFire(fired) /\ (OrchRollover(fired) \/ OrchBreak(fired) \/ OrchContinue(fired))
    \/ OrchTail
    \/ OrchJoin
    \/ OrchRead
    \/ \E ok \in BOOLEAN : OrchAnalyze(ok) \/ OrchSave(ok) \/ OrchExcept(ok)
    \/ OrchEmail
    \/ OrchCleanup

\* A step of thread t once it is started
ThreadStep(t) ==
    \/ \E outcome \in ExtractOutcomes, duration \in WavDurations(t) :
          W_Extract(t, outcome, duration)
    \/ /\ t = UploadThread
       /\ \E ok \in BOOLEAN, duration \in WavDurations(t) : U_Convert(ok, duration)
    \/ \E duration \in ProbedDurations(t) : T_Probe(t, duration)
    \/ \E small \in BOOLEAN : T_ChunkCheck(t, small)
    \/ T_Acquire(t)
    \/ \E outcome \in WhisperOutcomes : T_Whisper(t, outcome)

\* Every thread that can run does run, and every call that can return does:
\* the orchestrator and each started thread take their next step when it
\* stays possible.  Nothing obliges the client to send, to stop or to upload.
Fairness ==
    /\ WF_vars(OrchStep /\ UNCHANGED tokVars)
    /\ \A t \in Threads : WF_vars(ThreadStep(t) /\ UNCHANGED tokVars)

SpecFair == Init /\ [][Next]_vars /\ Fairness

\* The wall clock followed: a timed-out poll takes one tick, everything else
\* no time.  Only the orchestrator's collecting loop and the ingestion side
\* step: the loop reads nothing a worker writes.
TimedNext ==
    \/ Ingest
    \/ Collect
    \/ OrchGetEmpty(1) /\ UNCHANGED tokVars
    \/ OrchRollover(TimerFired) /\ UNCHANGED tokVars
    \/ OrchBreak(TimerFired) /\ UNCHANGED tokVars
    \/ OrchContinue(TimerFired) /\ UNCHANGED tokVars

SpecTimed == Init /\ [][TimedNext]_vars

-----------------------------------------------------------------------------
(* The store under arbitrary clients: any thread may add any fragment for  *)
(* any index at any time, and read the transcript at any time.             *)

Fragments == {<<>>, <<" ">>, <<"a">>, <<" ", "b">>}

StoreInit ==
    /\ parts = <<>>
    /\ calls = <<>>
    /\ lastRead = NoRead
    /\ LiveIdle
    /\ TokVarsInit
    /\ LimVarsInit
    /\ ExtractIdle
    /\ ApiIdle

StoreAdd(index, text) ==
    /\ Len(calls) < MaxAdds
    /\ parts' = add(parts, index, text)
    /\ calls' = Append(calls, [k |-> index, v |-> text])
    /\ UNCHANGED <<lastRead, ingestVars, orchVars, threadVars>>

StoreRead ==
    /\ lastRead' = [txt |-> get_full_transcript(parts), n |-> Len(calls)]
    /\ UNCHANGED <<parts, calls, ingestVars, orchVars, threadVars>>

StoreNext ==
    \/ \E index \in 0..MaxIdx, text \in Fragments : StoreAdd(index, text) /\ UNCHANGED tokVars
    \/ StoreRead /\ UNCHANGED tokVars

SpecStore == StoreInit /\ [][StoreNext]_vars

-----------------------------------------------------------------------------
(* The token service under arbitrary callers *)

TokInit ==
    /\ parts = <<>>
    /\ calls = <<>>
    /\ lastRead = NoRead
    /\ LiveIdle
    /\ TokVarsInit
    /\ LimVarsInit
    /\ ExtractIdle
    /\ ApiIdle

\* the variables of the store and of a live session
restVars == <<storeVars, ingestVars, liveNoClock, threadVars, limVars, apiVars,
              extractVars>>

TokNext ==
    \/ \E scope \in Scopes, session_id \in SessionIds \cup {None}, client_id \in Clients :
          issue_token(scope, session_id, client_id) /\ UNCHANGED restVars
    \/ \E token \in Presented, expected_scope \in Scopes, client_id \in Clients,
          dt \in 0..1 :
          validate_token(token, expected_scope, client_id, dt) /\ UNCHANGED restVars
    \/ \E jti \in IssuedJTIs : revoke_token_by_jti(jti) /\ UNCHANGED restVars
    \/ \E session_id \in SessionIds \cup IssuedSessions :
          revoke_session(session_id) /\ UNCHANGED restVars
    \/ TokTick /\ UNCHANGED restVars

SpecTok == TokInit /\ [][TokNext]_vars

-----------------------------------------------------------------------------
(* A RateLimiter under concurrent callers *)

LimInit ==
    /\ parts = <<>>
    /\ calls = <<>>
    /\ lastRead = NoRead
    /\ LiveIdle
    /\ TokVarsInit
    /\ LimVarsInit
    /\ ExtractIdle
    /\ ApiIdle

\* what a RateLimiter's callers leave alone
limRest == <<storeVars, ingestVars, liveNoClock, threadVars, tokState, apiVars,
             extractVars>>

LimNext ==
    \/ \E t \in LimCallers, key \in LimKeys : L_Now(t, key) /\ UNCHANGED limRest
    \/ \E t \in LimCallers : L_Locked(t) /\ UNCHANGED limRest
    \/ L_Tick /\ UNCHANGED limRest

SpecLimiter == LimInit /\ [][LimNext]_vars

-----------------------------------------------------------------------------
(* What the store's clients asked for, read off the history of add() calls *)

HasIdx(cs, i) == \E p \in 1..Len(cs) : cs[p].k = i

\* the text of the last add() for index i
Latest(cs, i) ==
    cs[CHOOSE p \in 1..Len(cs) :
           /\ cs[p].k = i
           /\ \A q \in (p + 1)..Len(cs) : cs[q].k # i].v

NonBlank(x) == \E p \in 1..Len(x) : ~IsSpace(x[p])

\* the non-blank latest fragments of indices i, i+1, ..., each two separated by
\* a blank line
RECURSIVE ExpectedFrom(_, _, _)
ExpectedFrom(cs, i, top) ==
    IF i > top THEN <<>>
    ELSE LET rest == ExpectedFrom(cs, i + 1, top)
         IN IF ~(HasIdx(cs, i) /\ NonBlank(Latest(cs, i))) THEN rest
            ELSE IF rest = <<>> THEN Latest(cs, i)
            ELSE Latest(cs, i) \o <<NL, NL>> \o rest

TopIdx(cs) == IF cs = <<>> THEN 0 ELSE CHOOSE m \in {cs[p].k : p \in 1..Len(cs)} :
                                         \A p \in 1..Len(cs) : cs[p].k <= m

\* C1: whatever indices were added and in whatever order the add() calls
\* completed, get_full_transcript() returns exactly the latest fragments that
\* are non-blank, in ascending index order, each two separated by "\n\n"; a
\* blank fragment adds neither text nor a separator.
C1_OrderedJoin ==
    lastRead.n >= 0 =>
        LET cs == SubSeq(calls, 1, lastRead.n)
        IN lastRead.txt = ExpectedFrom(cs, 0, TopIdx(cs))

\* three adds completed in descending index order, the middle one blank, and
\* the read gives fragment 0, a blank line, fragment 2
C1_Witness ==
    /\ lastRead.n = 3
    /\ calls[1].k = 2 /\ calls[2].k = 1 /\ calls[3].k = 0
    /\ calls[1].v = <<" ", "b">> /\ calls[2].v = <<" ">> /\ calls[3].v = <<"a">>
    /\ lastRead.txt = <<"a", NL, NL, " ", "b">>

\* C2: add is an upsert: after any calls the store holds exactly one entry per
\* index added, holding the text of the last add for it, and the transcript
\* read holds one fragment per unique index.
C2_Upsert ==
    /\ \A i \in DictKeys(parts) \cup {calls[p].k : p \in 1..Len(calls)} :
          /\ Cardinality({p \in 1..Len(parts) : parts[p].k = i}) = 1
          /\ HasIdx(calls, i)
          /\ DictGet(parts, i) = Latest(calls, i)
    /\ Len(parts) = Cardinality({calls[p].k : p \in 1..Len(calls)})
    /\ lastRead.n >= 0 =>
          LET cs == SubSeq(calls, 1, lastRead.n)
              kept == {i \in {cs[p].k : p \in 1..Len(cs)} : NonBlank(Latest(cs, i))}
              RECURSIVE Total(_)
              Total(S) == IF S = {} THEN 0
                          ELSE LET i == CHOOSE x \in S : TRUE
                               IN Len(Latest(cs, i)) + Total(S \ {i})
          IN Len(lastRead.txt) =
                 Total(kept) + (IF kept = {} THEN 0 ELSE 2 * (Cardinality(kept) - 1))

\* the same index added twice with different texts, then read: only the later
\* text is in the transcript
C2_Witness ==
    /\ lastRead.n = 2
    /\ calls[1] = [k |-> 1, v |-> <<"a">>]
    /\ calls[2] = [k |-> 1, v |-> <<" ", "b">>]
    /\ lastRead.txt = <<" ", "b">>
    /\ Len(parts) = 1

-----------------------------------------------------------------------------
(* Claims about a live session *)

InWhisper == {t \in Threads : tpc[t] = "whisper"}

\* C3: with the gate's capacity of 1, at most one thread (a worker of the live
\* session or the upload pipeline) is inside the external whisper call at any
\* time.
C3_OneInFlight == Cardinality(InWhisper) <= 1

\* a live worker is inside the call while another live worker and the upload
\* pipeline wait at the gate
C3_Witness ==
    /\ tpc[0] = "whisper"
    /\ tpc[1] = "acquire"
    /\ tpc[UploadThread] = "acquire"

\* C4: from the finalizing read on (the read at "read", then analysis, save,
\* email) every worker the orchestrator dispatched, window segments and tail,
\* has finished, and no started worker is undispatched.
C4_ReadAfterJoin ==
    opc \in {"read", "analyze", "save", "email"} =>
        /\ \A t \in Range(processing_threads) : tpc[t] = "done"
        /\ \A t \in LiveThreads : tpc[t] # "idle" => t \in Range(processing_threads)

\* the orchestrator is about to read with a window worker and the tail worker
\* both dispatched and finished, the tail having stored its fragment last
C4_Witness ==
    /\ opc = "read"
    /\ processing_threads = <<0, 1>>
    /\ targs[1].duration_sec = NoneSec
    /\ Len(calls) = 2 /\ calls[2].k = 1

FinalReadDone == olog # <<>> /\ olog[Len(olog)] = "read"

IsSentinel(c) == c.v = Sentinel(c.k)

\* C5 as stated: after the finalizing read the transcript is the blank-line
\* join of the fragments of the segments that did not fail, with no text for a
\* segment whose worker stored the error sentinel.
C5_SentinelExcluded ==
    FinalReadDone =>
        LET ok == SelectSeq(calls, LAMBDA c : ~IsSentinel(c))
        IN transcript = ExpectedFrom(ok, 0, TopIdx(calls))

SentinelAt(txt, i) ==
    \E p \in 1..(Len(txt) - 2) : SubSeq(txt, p, p + 2) = Sentinel(i)

\* C5 amended: the error sentinel is a fragment like any other: after the
\* finalizing read the transcript is the blank-line join, in index order, of
\* every stored fragment that is not blank, the sentinel of a failed segment
\* included at its index's place.
C5_SentinelKept ==
    FinalReadDone =>
        /\ transcript = ExpectedFrom(calls, 0, TopIdx(calls))
        /\ \A p \in 1..Len(calls) : IsSentinel(calls[p]) => SentinelAt(transcript, calls[p].k)

\* segment 0 gave "a", the tail segment 1 failed: the transcript read is "a",
\* a blank line, the sentinel of chunk 1
C5_Witness ==
    /\ FinalReadDone
    /\ transcript = <<"a", NL, NL>> \o Sentinel(1)

Windows(threads) ==
    [p \in 1..Len(threads) |->
        <<threads[p], targs[threads[p]].start_sec, targs[threads[p]].duration_sec>>]

UpTo(k) == [p \in 1..(k + 1) |-> p - 1]

\* the windows of indices 0..k: i starts at i * CHUNK_SECONDS, the last is open
WindowsUpTo(k) ==
    [p \in 1..(k + 1) |->
        <<p - 1, (p - 1) * CHUNK_SECONDS, IF p = k + 1 THEN NoneSec ELSE CHUNK_SECONDS>>]

\* the loop has ended and audio was there from the first window on
StreamEnded == opc = "join" /\ 0 \in Range(processing_threads)

C7_EmptySkipsAnalysis ==
    /\ (nput = 0 /\ opc = "done") =>
          /\ processing_threads = <<>>
          /\ transcript = <<>>
          /\ olog = <<"read", "cleanup">>
          /\ meetings = {}
    /\ ("read" \in Range(olog) /\ ~NonBlank(transcript)) =>
          /\ Range(olog) \cap {"analyze", "save", "email", "except"} = {}
          /\ opc \in {"cleanup", "done"}
          /\ folder = None

\* the stream ended before any increment arrived and the session is over
C7_Witness ==
    /\ nput = 0
    /\ opc = "done"
    /\ recording_stopped
    /\ olog = <<"read", "cleanup">>

\* a session with audio whose every fragment came out blank ends the same way
C7_WitnessBlank ==
    /\ nput > 0
    /\ opc = "done"
    /\ Len(calls) = 2
    /\ ~NonBlank(transcript)

-----------------------------------------------------------------------------
(* Claims about the token service *)

\* the validation rate limit rejects client c at this moment
VerifyLimited(c) ==
    ~allow(verify_buckets[c], TOKEN_VERIFY_LIMIT, TOKEN_VERIFY_WINDOW_SECONDS, clock).ok

\* C8: a first validate_token of an issued token with its own scope, before any
\* revocation named it and within its lifetime, succeeds; once revocation has
\* named the token, every validate_token of it within its lifetime fails with
\* 'Token inactive' (calls the rate limit rejects aside).
C8_RevokeThenInactive ==
    [][\A token \in Range(issued), c \in Clients, dt \in 0..1 :
         (validate_token(token, token.payload.scope, c, dt) /\ ~VerifyLimited(c)) =>
            LET jti == token.payload.jti
            IN /\ (jti \in revoked /\ ~(token.payload.exp < IntTime(clock)))
                      => tlast'.res = "Token inactive"
               /\ (okCount[jti] = 0 /\ jti \notin revoked
                   /\ ~(token.payload.exp < IntTime(clock + dt)))
                      => tlast'.res = "ok"]_vars

\* issue, validate (ok), revoke by jti, validate again: 'Token inactive'
C8_Witness ==
    /\ okCount[1] = 1
    /\ 1 \in revoked
    /\ tlast = [op |-> "validate", jti |-> 1, res |-> "Token inactive"]

\* C9: a validate_token that succeeds changes nothing but the caller's
\* validation bucket: the registry is as before and still holds the token; and
\* a token validated before passes every check of validate_token again, as
\* long as no revocation named it, it has not expired and the rate limit
\* admits the call.
C9_ValidateKeepsActive ==
    /\ [][(tlast'.op = "validate" /\ tlast'.res = "ok"
            /\ (tlast' # tlast \/ verify_buckets' # verify_buckets)) =>
            /\ active' = active
            /\ \E token \in Range(issued) :
                   token.payload.jti = tlast'.jti /\ token.payload \in active'
            /\ issue_buckets' = issue_buckets
            /\ issued' = issued]_vars
    /\ [](\A token \in Presentable, es \in Scopes, dt \in 0..1 :
            LET jti == token.payload.jti
            IN (SignatureOk(token) /\ okCount[jti] >= 1 /\ jti \notin revoked
                /\ es = token.payload.scope
                /\ ~(token.payload.exp < IntTime(clock + dt)))
                   => ValidateResult(token, es, clock, clock + dt) = "ok")

\* token 1 validated twice, never revoked, still registered
C9_Witness ==
    /\ okCount[1] >= 2
    /\ 1 \notin revoked
    /\ issued[1].payload \in active

\* C10 as stated: at most one validate_token call succeeds per issued token.
C10_OneShot == \A jti \in JTIs : okCount[jti] <= 1

\* C10 amended: validation does not deactivate the token.  A validate_token
\* succeeds only on a token that is registered, and leaves it registered; a
\* token is deactivated by revocation or expiry only, and once a revocation has
\* named it no validate_token of it succeeds: successes stop at one only when
\* the caller revokes the token after the first.
C10_ValidWhileActive ==
    [][\A jti \in JTIs :
         okCount'[jti] # okCount[jti] =>
            /\ Registered(active, jti) # {}
            /\ Registered(active', jti) = Registered(active, jti)
            /\ jti \notin revoked]_vars

\* token 1 validated twice, then revoked, and the next validation refused
C10_Witness ==
    /\ okCount[1] >= 2
    /\ 1 \in revoked
    /\ tlast = [op |-> "validate", jti |-> 1, res |-> "Token inactive"]

C12_ValidOnlyBeforeExpiry ==
    [][\A token \in Presentable, es \in Scopes, c \in Clients, dt \in 0..1 :
         (validate_token(token, es, c, dt) /\ ~VerifyLimited(c) /\ tlast'.res = "ok")
            => /\ Registered(active, token.payload.jti) # {}
               /\ clock < token.payload.exp * TicksPerSecond]_vars

\* the issue_token calls of client c admitted in the window that ends now
AdmittedInWindow(c) ==
    {p \in 1..Len(admitted[c]) :
        admitted[c][p] >= clock - TOKEN_ISSUE_WINDOW_SECONDS * TicksPerSecond}

\* C13: an issue_token call of a client that already has TOKEN_ISSUE_LIMIT
\* calls admitted in the trailing window is rejected with the rate-limit
\* error and issues nothing; a call made when fewer are left in the window,
\* so once the window has elapsed since the admitted calls, succeeds.
C13_IssueRateLimit ==
    [][\A scope \in Scopes, session_id \in SessionIds \cup {None}, c \in Clients :
         issue_token(scope, session_id, c) =>
            IF Cardinality(AdmittedInWindow(c)) >= TOKEN_ISSUE_LIMIT
            THEN /\ tlast' = [op |-> "issue", jti |-> 0,
                              res |-> "Rate limit exceeded for token issue"]
                 /\ issued' = issued
                 /\ active' = active
            ELSE /\ tlast'.res = "ok"
                 /\ Len(issued') = Len(issued) + 1]_vars

\* client c1 was admitted, and admitted again after the window had elapsed
C13_Witness ==
    /\ Len(admitted["c1"]) = 2
    /\ admitted["c1"][2] - admitted["c1"][1] > TOKEN_ISSUE_WINDOW_SECONDS * TicksPerSecond
    /\ tlast = [op |-> "issue", jti |-> 2, res |-> "ok"]

\* an issue_token call of c1 was rejected by the rate limit
C13_WitnessRejected ==
    /\ Len(admitted["c1"]) = 1
    /\ tlast = [op |-> "issue", jti |-> 0, res |-> "Rate limit exceeded for token issue"]

\* C14: a RateLimiter bucket never holds more than max_calls timestamps,
\* whatever the interleaving of the threads that call allow().
C14_BucketBounded == \A k \in LimKeys : Len(buckets[k]) <= LimMaxCalls

\* a full bucket, and two threads inside allow() for its key that read the
\* time before the bucket filled and are about to take the lock
C14_Witness ==
    /\ Len(buckets["k1"]) = LimMaxCalls
    /\ \E t, u \in LimCallers :
          /\ t # u
          /\ lpc[t] = "lock" /\ lkey[t] = "k1"
          /\ lpc[u] = "lock" /\ lkey[u] = "k1"
          /\ lnow[t] < buckets["k1"][1]

\* C15: a token id that has left the registry never returns to it, and the
\* entry of a registered token id changes only by being removed: over every
\* step, the entry of an issued id is as before or gone.
C15_NeverResurrected ==
    [][\A jti \in IssuedJTIs :
         \/ Registered(active', jti) = Registered(active, jti)
         \/ Registered(active', jti) = {}]_vars

\* token 1 was revoked; token 2 was issued since and is registered; token 1
\* was presented again and found inactive
C15_Witness ==
    /\ Len(issued) = 2
    /\ Registered(active, 1) = {}
    /\ Registered(active, 2) # {}
    /\ tlast = [op |-> "validate", jti |-> 1, res |-> "Token inactive"]

\* token 1 left the registry by expiry eviction, no revocation having named it
C15_WitnessEvicted ==
    /\ 1 \in IssuedJTIs
    /\ 1 \notin revoked
    /\ Registered(active, 1) = {}

\* the token ids and session ids a revocation may be given: those of the
\* tokens issued, those of tokens not issued yet, and ones no token carries
AnyJTI == JTIs \cup {0}
AnySession == SessionIds \cup {FreshSession(j) : j \in JTIs} \cup {"unknown"}

\* C16: in every reachable registry, revoking a token id or a session that has
\* no registered token leaves the registry as it is, and revoking twice gives
\* the registry that revoking once gives; the revocations are defined for
\* every id.
C16_RevokeIdempotent ==
    /\ \A jti \in AnyJTI :
          LET once == revoke_jti(active, jti)
          IN /\ revoke_jti(once, jti) = once
             /\ Registered(once, jti) = {}
             /\ Registered(active, jti) = {} => once = active
    /\ \A session_id \in AnySession :
          LET once == registry_revoke_session(active, session_id)
          IN /\ registry_revoke_session(once, session_id) = once
             /\ (\A p \in active : p.session_id # session_id) => once = active

\* token 1 has been revoked and is out of the registry while token 2, of the
\* caller's session s1, is registered: revoking token 1 again, or its session,
\* must leave token 2 where it is
C16_Witness ==
    /\ 1 \in revoked
    /\ Registered(active, 1) = {}
    /\ \E p \in Registered(active, 2) : p.session_id = "s1"

-----------------------------------------------------------------------------
(* Claims about the end of a live session *)

\* how many times the orchestrator made the call
Times(call) == Cardinality({p \in 1..Len(olog) : olog[p] = call})

\* C17: the terminal cleanup runs exactly once on every way out of the
\* orchestrator (never twice, and the orchestrator is not over before it has
\* run), and once it has run no part file of the session exists.
C17_CleanupOnceAllGone ==
    /\ Times("cleanup") <= 1
    /\ opc = "done" => /\ Times("cleanup") = 1
                       /\ disk = {}

\* C18: when the analysis call failed and the failure path saved the
\* transcript, then after the session is over, cleanup included, the
\* failed-session folder holding the transcript exists.
C18_FailedArtifactKept ==
    (opc = "done" /\ Times("analyze raised") = 1 /\ folder = "FAILED_meeting") =>
        \E m \in meetings : m.name = "FAILED_meeting" /\ m.transcript = transcript

\* the orchestrator's own calls that raised
Raised == Times("write raised") + Times("analyze raised") + Times("save raised")

C20_IngestionNeverBlocks ==
    /\ (~recording_stopped /\ nput < MaxBlobs) =>
          ENABLED (IngestPut /\ UNCHANGED tokVars)
    /\ (opc = "get" /\ data_queue # <<>>) =>
          ENABLED (OrchGetBlob /\ UNCHANGED tokVars)
    /\ (opc = "get" /\ data_queue = <<>>) =>
          ENABLED (OrchGetEmpty(0) /\ UNCHANGED tokVars)
    /\ (opc = "check" /\ ~recording_stopped /\ chunk_index < MaxRollovers) =>
          ENABLED (OrchRollover(TRUE) /\ UNCHANGED tokVars)
    /\ opc = "check" =>
          ENABLED ((OrchBreak(FALSE) \/ OrchContinue(FALSE)) /\ UNCHANGED tokVars)

\* the upload pipeline is inside the whisper call and holds the gate, the
\* worker of segment 0 waits for it, and the orchestrator, still collecting,
\* has taken a second increment since
C20_Witness ==
    /\ tpc[UploadThread] = "whisper"
    /\ tpc[0] = "acquire"
    /\ sem = 0
    /\ opc = "check"
    /\ ~recording_stopped
    /\ Len(all_part_files) = 2
-----------------------------------------------------------------------------
(* The request surface under arbitrary clients *)

Configurations ==
    [ACCESS_TOKEN : {"", "access"}, BOOTSTRAP_SECRET : {"", "bootstrap"}]

ApiInit ==
    /\ parts = <<>>
    /\ calls = <<>>
    /\ lastRead = NoRead
    /\ LiveIdle
    /\ TokVarsInit
    /\ LimVarsInit
    /\ ExtractIdle
    /\ config \in Configurations
    /\ nreq = 0
    /\ open = {}
    /\ started = {}
    /\ hlast = [op |-> "none", res |-> "", jti |-> 0]

\* what the handlers leave alone
apiRest == <<storeVars, ingestVars, liveNoClock, threadVars, limVars, extractVars>>

\* the Authorization headers and x-bootstrap-token values sent to /api/token
AuthorizationHeaders ==
    {<<>>, <<"bearer", "bootstrap">>, <<"bearer", "wrong">>, <<"basic", "bootstrap">>,
     <<"bearer">>}
BootstrapHeaders == {"", "bootstrap", "wrong"}

\* the tokens a /ws or upload request carries: none, a session token or a
\* forgery of one, the string that is the static access token when one is set
RequestTokens == Presentable \cup {NoToken, Text("access")}

\* the scope values sent to /api/token: the recognized ones and others
RequestScopes == Scopes \cup {"admin", "WS", ""}

ApiNext ==
    \/ \E authorization \in AuthorizationHeaders, bootstrap_header \in BootstrapHeaders,
          scope \in RequestScopes, session_id \in SessionIds \cup {None},
          client_id \in Clients :
          /\ Len(issued) < MaxApiTokens
          /\ issue_session_token(authorization, bootstrap_header, scope, session_id,
                                 client_id)
          /\ UNCHANGED apiRest
    \/ \E kind \in Scopes, token \in RequestTokens, client_host \in Clients :
          H_Admit(kind, token, client_host) /\ UNCHANGED apiRest
    \/ \E s \in open, disconnect \in BOOLEAN : WsFirstMessage(s, disconnect) /\ UNCHANGED apiRest
    \/ \E s \in open : WsEnd(s) /\ UNCHANGED apiRest
    \/ \E s \in open, ok \in BOOLEAN : UploadStart(s, ok) /\ UNCHANGED apiRest
    \/ ApiTick /\ UNCHANGED apiRest

SpecApi == ApiInit /\ [][ApiNext]_vars
-----------------------------------------------------------------------------
(* The token issuing endpoint under arbitrary callers, with the revocations *)
(* the other handlers make                                                  *)

IssueNext ==
    \/ \E authorization \in AuthorizationHeaders, bootstrap_header \in BootstrapHeaders,
          scope \in RequestScopes, session_id \in SessionIds \cup {None},
          client_id \in Clients :
          /\ issue_session_token(authorization, bootstrap_header, scope, session_id,
                                 client_id)
          /\ UNCHANGED apiRest
    \/ \E jti \in IssuedJTIs :
          revoke_token_by_jti(jti) /\ UNCHANGED <<apiRest, apiVars>>
    \/ \E session_id \in SessionIds \cup IssuedSessions :
          revoke_session(session_id) /\ UNCHANGED <<apiRest, apiVars>>
    \/ ApiTick /\ UNCHANGED apiRest

SpecIssue == ApiInit /\ [][IssueNext]_vars

-----------------------------------------------------------------------------
(* Claims about the dispatch of segments *)

\* C23: the workers are dispatched in window order: the indices in
\* processing_threads are strictly increasing (so none is dispatched twice)
\* and none is ahead of the window being collected, every worker was started
\* with the window start index * CHUNK_SECONDS, and a worker that is not idle
\* was dispatched.  Nothing orders the workers' completions.
C23_DispatchInWindowOrder ==
    /\ \A p, q \in 1..Len(processing_threads) :
          p < q => processing_threads[p] < processing_threads[q]
    /\ \A p \in 1..Len(processing_threads) :
          /\ processing_threads[p] <= chunk_index
          /\ targs[processing_threads[p]].start_sec =
                 processing_threads[p] * CHUNK_SECONDS
    /\ \A t \in LiveThreads : tpc[t] # "idle" => t \in Range(processing_threads)

\* segments 0 and 1 were dispatched in this order and the worker of segment 1
\* stored its fragment before the worker of segment 0 did
C23_Witness ==
    /\ processing_threads = <<0, 1>>
    /\ Len(calls) = 2
    /\ calls[1].k = 1 /\ calls[2].k = 0

\* window 0 rolled over with nothing received: the first worker dispatched
\* is that of segment 1
C23_WitnessSkipped ==
    /\ processing_threads = <<1>>
    /\ targs[1].start_sec = CHUNK_SECONDS

\* the workers started without an end bound
TailWorkers ==
    {p \in 1..Len(processing_threads) :
        targs[processing_threads[p]].duration_sec = NoneSec}

\* the orchestrator is past the dispatch of the final segment
TailPassed == opc = "join" \/ Times("read") > 0

\* C24: no worker is started without an end bound before the stream's end is
\* observed; once it is, and the orchestrator has passed the final dispatch,
\* exactly one such worker exists when some increment was received (it is
\* the last one dispatched, it has the index of the last window, it starts at
\* that window's start and it sees every increment) and none exists when
\* nothing was received.  A worker whose extraction finds no audio ends
\* without a fragment and without taking the gate.
C24_OneTail ==
    /\ [](/\ TailWorkers # {} => recording_stopped /\ opc \notin {"get", "check", "tail"}
          /\ TailPassed =>
                IF all_part_files # <<>>
                THEN /\ TailWorkers = {Len(processing_threads)}
                     /\ processing_threads[Len(processing_threads)] = chunk_index
                     /\ targs[chunk_index] =
                           [part_files |-> all_part_files,
                            start_sec |-> chunk_index * CHUNK_SECONDS,
                            duration_sec |-> NoneSec]
                ELSE processing_threads = <<>>)
    /\ [][\A t \in LiveThreads :
            (tpc[t] = "extract" /\ tpc'[t] # "extract" /\ twav'[t] = 0) =>
               /\ tpc'[t] = "done"
               /\ UNCHANGED <<parts, calls, sem>>]_vars

\* the final segment of a session was cut after one full window and holds
\* 30 s of audio, less than CHUNK_SECONDS: it is being sliced
C24_Witness ==
    /\ TailPassed
    /\ processing_threads = <<0, 1>>
    /\ targs[1].duration_sec = NoneSec
    /\ tpc[1] = "chunk" /\ twav[1] = 30000

\* the final segment holds no audio: its worker is done, the transcript is
\* read and no fragment was stored for it
C24_WitnessEmptyTail ==
    /\ Times("read") > 0
    /\ processing_threads = <<0, 1>>
    /\ DictKeys(parts) = {0}

\* the last increment a worker was started with
LastPart(t) == targs[t].part_files[Len(targs[t].part_files)]

\* An increment holds no audio recorded after it was sent: one enqueued
\* before (i + 1) * CHUNK_SECONDS of the session had passed ends before
\* window i does.  The increments worker i was started with cover window i
\* only if the last of them was enqueued after that.
CoversWindow(t) == arrived[LastPart(t)] >= t + 1

\* C25 as stated: every worker of a full window was started with increments
\* that cover its whole window.
C25_DispatchedWhenCovered ==
    \A p \in 1..Len(processing_threads) :
        targs[processing_threads[p]].duration_sec # NoneSec =>
            CoversWindow(processing_threads[p])

\* C25: a worker of a full window i is started when more than CHUNK_SECONDS
\* of wall-clock time have passed since window i began, hence later than
\* (i + 1) * CHUNK_SECONDS into the session, and with at least one
\* increment; whether the increments cover the window plays no part.  The
\* final segment is reached only once the stream has ended.
C25_DispatchedByClock ==
    /\ chunk_index > 0 => chunk_start_time > chunk_index * ChunkTicks
    /\ \A p \in 1..Len(processing_threads) :
          targs[processing_threads[p]].duration_sec # NoneSec =>
             /\ processing_threads[p] < chunk_index
             /\ targs[processing_threads[p]].part_files # <<>>
    /\ TailWorkers # {} \/ opc = "tail" => recording_stopped

\* segment 0 was dispatched 60.5 s into the session with the one increment
\* received, which had arrived in the first minute
C25_Witness ==
    /\ processing_threads = <<0>>
    /\ chunk_start_time = ChunkTicks + 1
    /\ targs[0].part_files = <<1>>
    /\ ~CoversWindow(0)

\* C26: the rollover depends on the clock alone.  A check that finds more
\* than CHUNK_SECONDS passed since the window began, and the stream not
\* ended, can only go on to the next window: the index advances by one and
\* the window's timer restarts, and with no increment received no worker is
\* started and nothing is stored.  The index changes in no other way.
C26_RolloverByClock ==
    /\ [](/\ chunk_index <= MaxChunkIndex
          /\ (opc = "check" /\ TimerFired /\ ~recording_stopped
                /\ chunk_index < MaxChunkIndex) =>
                ENABLED (OrchRollover(TRUE) /\ UNCHANGED tokVars))
    /\ [][/\ (opc = "check" /\ TimerFired /\ ~recording_stopped /\ opc' # "check") =>
               /\ chunk_index' = chunk_index + 1
               /\ chunk_start_time' = clock
               /\ opc' = "get"
               /\ all_part_files = <<>> =>
                     UNCHANGED <<processing_threads, tpc, targs, storeVars>>
          /\ chunk_index' # chunk_index =>
               opc = "check" /\ TimerFired /\ ~recording_stopped]_vars

\* the first window rolled over 60.5 s into the session with nothing received
\* and nothing dispatched
C26_Witness ==
    /\ chunk_index = 1
    /\ chunk_start_time = ChunkTicks + 1
    /\ nput = 0 /\ all_part_files = <<>>
    /\ processing_threads = <<>>
    /\ \A t \in Threads : tpc[t] = "idle"

-----------------------------------------------------------------------------
(* Claims about the segment workers *)

\* C22 as stated: for a segment whose audio is shorter than 0.1 s extraction
\* yields Unavailable: build_and_extract_wav_chunk hands a WAV to the
\* transcription only when it holds at least 0.1 s (100 ms) of audio.
C22_ShortIsUnavailable ==
    \A t \in LiveThreads : tpc[t] = "probe" => twav[t] >= 100

\* C22 amended: extraction yields Unavailable only for a segment with no audio
\* at all (or when ffmpeg fails); a segment of some audio but less than 0.1 s
\* is extracted, and it is the slicer that drops it: no chunk is cut, the
\* external transcription call is never made and the gate never acquired for
\* it, and its worker stores an empty fragment.
C22_ShortNeverTranscribed ==
    /\ [](\A t \in Threads :
            /\ tpc[t] \in {"chunk", "acquire", "whisper"} => twav[t] >= 100
            /\ (t \in LiveThreads /\ tpc[t] = "probe") => twav[t] > 0)
    /\ [][\A t \in LiveThreads :
            (tpc[t] = "probe" /\ twav[t] < 100 /\ tpc'[t] # "probe") =>
               /\ tpc'[t] = "done"
               /\ sem' = sem
               /\ parts' = add(parts, t, <<>>)]_vars

\* the window segment 0 was extracted with 50 ms of audio and its worker is
\* about to probe and slice it, while the gate is free
C22_Witness ==
    /\ tpc[0] = "probe"
    /\ twav[0] = 50
    /\ targs[0].duration_sec = CHUNK_SECONDS
    /\ sem = WHISPER_PERMITS

-----------------------------------------------------------------------------
(* Claims about the request surface *)

\* the requests admitted: those being served and those whose orchestrator or
\* upload pipeline was started
Admitted == open \cup started

\* C21: a /ws connection or upload request whose session token fails
\* validate_token is rejected and starts no orchestrator and no upload
\* pipeline: every request admitted that carried a session token (one this
\* service issued, or a forgery of one) was admitted with the payload
\* validate_token returned for it.
C21_StartOnlyIfValidated ==
    \A s \in Admitted : IsSessionToken(s.presented) => s.token_payload # NonePayload

\* the same with a static access token configured: the legacy check then
\* refuses every session token that failed validation
C21_RejectedWhenAuthEnabled == AUTH_ENABLED => C21_StartOnlyIfValidated

\* with no static access token configured, an orchestrator was started for a
\* connection whose token had been used before and was found inactive
C21_WitnessReplayStarted ==
    /\ ~AUTH_ENABLED
    /\ \E s \in started :
          /\ s.kind = "ws"
          /\ IsSessionToken(s.presented) /\ SignatureOk(s.presented)
          /\ s.token_payload = NonePayload
          /\ s.presented.payload.jti \in revoked
\* the requests admitted with the payload validate_token returned for token jti
ThroughToken(jti) ==
    {s \in Admitted : s.token_payload # NonePayload /\ s.token_payload.jti = jti}

\* C34: at the request surface a session token is used once.  However the
\* /ws and upload requests presenting it are ordered, validate_token
\* succeeds for it at most once and at most one request is admitted with its
\* payload; the handler has revoked it by then: it is not registered, and a
\* request admitted that way presented the token itself, for its own scope.
C34_OneShotAtSurface ==
    \A jti \in JTIs :
        /\ okCount[jti] <= 1
        /\ Cardinality(ThroughToken(jti)) <= okCount[jti]
        /\ okCount[jti] = 1 => jti \in revoked /\ Registered(active, jti) = {}
        /\ \A s \in ThroughToken(jti) :
              /\ s.presented \in Range(issued)
              /\ s.presented.payload = s.token_payload
              /\ s.token_payload.scope = s.kind

\* token 1 was presented by both requests made: the first was admitted with
\* its payload, the second found it inactive and was refused by the static
\* token check
C34_Witness ==
    /\ AUTH_ENABLED
    /\ nreq = 2
    /\ okCount[1] = 1
    /\ Cardinality(ThroughToken(1)) = 1
    /\ Cardinality(Admitted) = 1
    /\ tlast = [op |-> "validate", jti |-> 1, res |-> "Token inactive"]

\* C30: a token request whose scope is not a recognized one is rejected
\* before anything is minted: whatever credentials it carries, it leaves the
\* registry, the tokens issued and the issue rate limiter as they were and its
\* response carries no token; with the right bootstrap secret the response is
\* 'Invalid scope'.
C30_UnknownScopeMintsNothing ==
    [][\A authorization \in AuthorizationHeaders, bootstrap_header \in BootstrapHeaders,
          scope \in RequestScopes \ Scopes, session_id \in SessionIds \cup {None},
          client_id \in Clients :
          issue_session_token(authorization, bootstrap_header, scope, session_id,
                              client_id) =>
             /\ active' = active
             /\ issued' = issued
             /\ issue_buckets' = issue_buckets
             /\ hlast'.jti = 0 /\ hlast'.res # "ok"
             /\ (/\ config.BOOTSTRAP_SECRET # ""
                 /\ \/ authorization = <<"bearer", config.BOOTSTRAP_SECRET>>
                    \/ authorization = <<>> /\ bootstrap_header = config.BOOTSTRAP_SECRET)
                   => hlast'.res = "Invalid scope"]_vars

\* a token was issued and is registered, and the request after it was refused
\* for its scope
C30_Witness ==
    /\ hlast = [op |-> "token", res |-> "Invalid scope", jti |-> 0]
    /\ Len(issued) = 1
    /\ active = {issued[1].payload}

-----------------------------------------------------------------------------
(* Claims about the whisper gate *)

\* thread t leaves the size check of its current chunk without going on to
\* the gate: the chunk was below the minimum size
ChunkSkipped(t) ==
    /\ tpc[t] = "chunk"
    /\ tpc'[t] # "acquire"
    /\ tpc'[t] # "chunk" \/ tchunks'[t] # tchunks[t]

\* C27: the size check comes before the gate.  A thread at the check can
\* always drop a chunk below the minimum size, whether permits are available
\* or not; doing so leaves the permits, the threads holding one and every
\* other thread as they are, and the thread stands at the gate only for a
\* chunk that passed the check.
C27_SizeCheckBeforeGate ==
    /\ [](\A t \in Threads :
            tpc[t] = "chunk" =>
               ENABLED (T_ChunkCheck(t, TRUE) /\ tpc'[t] # "acquire" /\ UNCHANGED tokVars))
    /\ [][\A t \in Threads :
            /\ ChunkSkipped(t) =>
                  /\ sem' = sem
                  /\ \A u \in Threads \ {t} : tpc'[u] = tpc[u]
                  /\ tacc'[t] = <<>> \/ tacc'[t] = Append(tacc[t], <<>>)
            /\ (tpc'[t] = "acquire" /\ tpc[t] # "acquire") => tpc[t] = "chunk"
            /\ (tpc'[t] = "whisper" /\ tpc[t] # "whisper") => tpc[t] = "acquire"]_vars

\* worker 0 has dropped its only chunk and stored an empty fragment while
\* worker 1 holds the only permit
C27_Witness ==
    /\ sem = 0
    /\ tpc[1] = "whisper"
    /\ tpc[0] = "done"
    /\ calls = <<[k |-> 0, v |-> <<>>]>>

\* permits taken and not given back
Held == WHISPER_PERMITS - sem

\* C28: the permits held are exactly those of the threads inside the with
\* block, one each: never more than WHISPER_PERMITS, and none when no
\* transcription is in progress, whether the transcriptions before succeeded
\* or raised.
C28_GateReleased ==
    /\ sem \in 0..WHISPER_PERMITS
    /\ Held = Cardinality(InWhisper)
    /\ InWhisper = {} => Held = 0

\* the transcription of segment 0 raised, its worker stored the sentinel,
\* and every permit is back
C28_Witness ==
    /\ calls = <<[k |-> 0, v |-> Sentinel(0)]>>
    /\ InWhisper = {}
    /\ Held = 0
    /\ tpc[1] = "acquire"

-----------------------------------------------------------------------------
(* Claims about termination *)

AllWorkersDone == \A p \in 1..Len(processing_threads) : tpc[processing_threads[p]] = "done"

\* the orchestrator has ended and its finally block has run
SessionEnded == opc = "done" /\ Times("cleanup") = 1

\* C29 as stated: no thread waits at the gate for ever; a session whose
\* recording_stopped is set ends, cleanup done, having joined its workers;
\* setting recording_stopped changes no thread, and the orchestrator never
\* is at its end while a worker it dispatched is still running.
C29_StoppedSessionJoinsAndEnds ==
    /\ \A t \in Threads : (tpc[t] = "acquire") ~> (tpc[t] = "whisper")
    /\ recording_stopped ~> (SessionEnded /\ Times("read") = 1)
    /\ [][recording_stopped' # recording_stopped => UNCHANGED threadVars]_vars
    /\ [](opc = "done" => AllWorkersDone)

\* the part of C29 that holds: nobody starves at the gate, a stopped session
\* ends with cleanup done and every worker finished, the stop changes no
\* thread, and the orchestrator has joined its workers when it ends unless
\* writing a part file raised
C29_EndsAndJoinsUnlessWriteRaised ==
    /\ \A t \in Threads : (tpc[t] = "acquire") ~> (tpc[t] = "whisper")
    /\ recording_stopped ~> (SessionEnded /\ AllWorkersDone)
    /\ [][recording_stopped' # recording_stopped => UNCHANGED threadVars]_vars
    /\ []((opc = "done" /\ Times("write raised") = 0) =>
             AllWorkersDone /\ Times("read") = 1)

\* a stopped session has ended after a write raised, with worker 0 still
\* extracting
C29_WitnessNotJoined ==
    /\ recording_stopped
    /\ SessionEnded
    /\ processing_threads = <<0>>
    /\ tpc[0] = "extract"

-----------------------------------------------------------------------------
(* Claims about validate_token's rejections *)

\* C31: whenever validate_token is called and the rate limit admits the call,
\* a token issued with scope s succeeds only for expected_scope = s and is
\* rejected with "Invalid scope" for any other, whatever else holds of it; each
\* mismatch has its own rejection: "Invalid audience" for a signed token of
\* another audience, "Token expired" for a token of the right audience and
\* scope past its expiry, "Token inactive" for one, not expired, that the
\* registry does not hold.
C31_ScopeBound ==
    /\ tlast.op = "validate" =>
          tlast.res \in {"ok", "Rate limit exceeded", "Invalid token signature",
                         "Invalid audience", "Invalid scope", "Token expired",
                         "Token inactive"}
    /\ \A token \in Presented, es \in Scopes, dt \in 0..1 :
          LET p == token.payload
              res == ValidateResult(token, es, clock, clock + dt)
              signed == SignatureOk(token)
              expired == p.exp < IntTime(clock)
          IN /\ res = "ok" => p.scope = es /\ token \in Range(issued)
             /\ (token \in Range(issued) /\ p.scope # es) => res = "Invalid scope"
             /\ (signed /\ p.aud # "smallpie") => res = "Invalid audience"
             /\ (signed /\ p.aud = "smallpie" /\ p.scope = es /\ expired) =>
                   res = "Token expired"
             /\ (signed /\ p.aud = "smallpie" /\ p.scope = es /\ ~expired
                   /\ ~is_active(active, p.jti, clock + dt)) => res = "Token inactive"

\* token 1, issued for "ws" and still registered, was just refused with
\* "Invalid scope"
C31_Witness ==
    /\ tlast = [op |-> "validate", jti |-> 1, res |-> "Invalid scope"]
    /\ issued[1].payload.scope = "ws"
    /\ issued[1].payload \in active

\* a token signed for another audience was just refused
C31_WitnessAudience == tlast.op = "validate" /\ tlast.res = "Invalid audience"

\* a validate_token call has returned or raised
ValidateStep ==
    /\ tlast'.op = "validate"
    /\ tlast' # tlast \/ verify_buckets' # verify_buckets

\* C39: a validate_token that fails removes nothing from the registry but
\* the entry of the token presented, and that only when it has expired; it
\* adds nothing, issues nothing and revokes nothing.  A call refused for the
\* rate limit, the signature, the audience or the scope leaves the registry
\* as it was, and an issued token refused that way, if registered and not
\* expired, passes every check of validate_token for its own scope.
C39_FailureKeepsRegistry ==
    /\ [][(ValidateStep /\ tlast'.res # "ok") =>
            /\ active' \subseteq active
            /\ \A p \in active \ active' :
                  p.jti = tlast'.jti /\ p.exp < IntTime(clock')
            /\ tlast'.res \in {"Rate limit exceeded", "Invalid token signature",
                               "Invalid audience", "Invalid scope"} => active' = active
            /\ issued' = issued /\ revoked' = revoked /\ okCount' = okCount]_vars
    /\ []((tlast.op = "validate" /\ tlast.res \in {"Rate limit exceeded", "Invalid scope"}) =>
            \A tok \in Range(issued) :
               (tok.payload.jti = tlast.jti /\ tok.payload \in active
                  /\ ~(tok.payload.exp < IntTime(clock))) =>
                     ValidateResult(tok, tok.payload.scope, clock, clock) = "ok")

\* token 1 was refused because the client is rate-limited; it is still
\* registered and has not expired
C39_Witness ==
    /\ tlast = [op |-> "validate", jti |-> 1, res |-> "Rate limit exceeded"]
    /\ issued[1].payload \in active
    /\ ~(issued[1].payload.exp < IntTime(clock))

\* token 1 was refused as expired by validate_token's own check, is_active
\* was not reached, and the entry is still in the registry
C39_WitnessExpiredKept ==
    /\ tlast = [op |-> "validate", jti |-> 1, res |-> "Token expired"]
    /\ issued[1].payload \in active

IssueStep ==
    /\ tlast'.op = "issue"
    /\ tlast' # tlast \/ issue_buckets' # issue_buckets

\* the timestamps of bucket dq that are still in the window at time now
InWindow(dq, window_seconds, now) ==
    PopExpired(dq, now - window_seconds * TicksPerSecond)

\* C40: a validate_token call the limiter admits appends its time to the
\* caller's validation bucket whatever the outcome for the token; a call the
\* limiter refuses, issue or validate, appends nothing to either bucket (it
\* only drops the timestamps that left the window), registers and issues
\* nothing and counts no success.  Hence a client with TOKEN_VERIFY_LIMIT
\* calls in its window, failed ones included, is refused whatever it
\* presents next.
C40_EveryCallCounts ==
    /\ [][\A c \in Clients :
            /\ ValidateStep =>
                  /\ issue_buckets' = issue_buckets
                  /\ IF tlast'.res = "Rate limit exceeded"
                     THEN /\ verify_buckets'[c] =
                                InWindow(verify_buckets[c], TOKEN_VERIFY_WINDOW_SECONDS, clock)
                          /\ UNCHANGED <<active, issued, okCount>>
                     ELSE verify_buckets'[c] =
                             Append(InWindow(verify_buckets[c],
                                             TOKEN_VERIFY_WINDOW_SECONDS, clock), clock)
            /\ (IssueStep /\ tlast'.res # "ok") =>
                  /\ tlast'.res = "Rate limit exceeded for token issue"
                  /\ issue_buckets'[c] =
                        InWindow(issue_buckets[c], TOKEN_ISSUE_WINDOW_SECONDS, clock)
                  /\ UNCHANGED <<verify_buckets, active, issued, okCount>>]_vars
    /\ [](\A c \in Clients :
            Len(InWindow(verify_buckets[c], TOKEN_VERIFY_WINDOW_SECONDS, clock))
                >= TOKEN_VERIFY_LIMIT => VerifyLimited(c))
    /\ [][\A c \in Clients :
            (VerifyLimited(c) /\ ValidateStep) => tlast'.res = "Rate limit exceeded"]_vars

\* token 1, registered, not expired and never validated with success, was
\* refused for the rate limit: the TOKEN_VERIFY_LIMIT calls before it in the
\* window all failed
C40_Witness ==
    /\ tlast = [op |-> "validate", jti |-> 1, res |-> "Rate limit exceeded"]
    /\ Len(issued) = 1
    /\ okCount[1] = 0
    /\ Len(verify_buckets["c1"]) = TOKEN_VERIFY_LIMIT
    /\ issued[1].payload \in active
    /\ ~(issued[1].payload.exp < IntTime(clock))

-----------------------------------------------------------------------------
(* Claims about the finalization *)

\* the positions of a call in the orchestrator's log
At(call) == {p \in 1..Len(olog) : olog[p] = call}

\* C32: in a live session analyze_with_gpt is called at most once; it is
\* called, or about to be, only with a transcript that is not blank, read
\* once from the store after every dispatched worker has finished and after
\* the join; and the report is saved (save_meeting_outputs with the analysis)
\* at most once, after the analysis was called and without it having raised.
C32_AnalyzeOnceAfterJoin ==
    /\ Times("analyze") <= 1
    /\ (opc = "analyze" \/ Times("analyze") = 1) =>
          /\ NonBlank(transcript)
          /\ Truthy(Strip(transcript))
          /\ AllWorkersDone
          /\ Times("read") = 1
          /\ \A a \in At("analyze"), r \in At("read") : r < a
          /\ transcript = get_full_transcript(parts)
    /\ Times("save") + Times("save raised") <= 1
    /\ (opc = "save" \/ Times("save") + Times("save raised") = 1) =>
          /\ Times("analyze") = 1 /\ Times("analyze raised") = 0
          /\ \A a \in At("analyze"), s \in At("save") \cup At("save raised") : a < s

\* two segments were dispatched, the analysis was called once and the report
\* then saved
C32_Witness ==
    /\ processing_threads = <<0, 1>>
    /\ olog = <<"read", "analyze", "save">>
    /\ NonBlank(transcript)

\* the transcript read was blank: the session has ended without the analysis
C32_WitnessNoAnalysis ==
    /\ processing_threads # <<>>
    /\ opc = "done"
    /\ Times("read") = 1 /\ Times("analyze") = 0

-----------------------------------------------------------------------------
(* Claims about the end of a session *)

\* C33: once the orchestrator has ended, on whatever path, no add() is
\* called on the session's store.
C33_NoAddAfterEnd == [][opc = "done" => UNCHANGED <<parts, calls>>]_vars

\* the orchestrator has ended and a worker it dispatched has stored its
\* fragment since: the last call it logged is the cleanup, and the store
\* holds a fragment the transcript it read for the failure report lacks
C33_WitnessAddAfterEnd ==
    /\ opc = "done"
    /\ Times("write raised") = 1
    /\ calls # <<>>
    /\ transcript = <<>>

\* C36: once the orchestrator is past the final dispatch, every increment
\* enqueued before recording_stopped was set has been taken from the queue
\* and written, and the final segment's worker was started with all of them.
C36_NothingLostAtEnd ==
    TailPassed =>
        /\ data_queue = <<>>
        /\ all_part_files = [b \in 1..nput |-> b]
        /\ nput > 0 => targs[chunk_index].part_files = [b \in 1..nput |-> b]

\* C37: once the orchestrator is past the final dispatch of a session that
\* received audio, the windows dispatched are [i * CHUNK_SECONDS,
\* (i + 1) * CHUNK_SECONDS) for every i below the last index and
\* [chunk_index * CHUNK_SECONDS, end) for the last: together they cover the
\* stream from 0 on, each instant once.
C37_WindowsCoverTimeline ==
    (opc = "join" /\ all_part_files # <<>>) =>
        /\ processing_threads = UpTo(chunk_index)
        /\ Windows(processing_threads) = WindowsUpTo(chunk_index)

\* C38: a part file in the snapshot of a worker that has still to read it
\* exists; the cleanup has run only when every dispatched worker is done.
C38_PartsKeptWhileRunning ==
    /\ \A t \in LiveThreads :
          tpc[t] = "extract" => Range(targs[t].part_files) \subseteq disk
    /\ Times("cleanup") > 0 => AllWorkersDone

-----------------------------------------------------------------------------
(* The /ws and upload handlers under requests that present session tokens, *)
(* the tokens being issued by issue_token however they were asked for      *)

AdmitNext ==
    \/ \E scope \in Scopes, session_id \in SessionIds \cup {None}, client_id \in Clients :
          /\ Len(issued) < MaxApiTokens
          /\ issue_token(scope, session_id, client_id)
          /\ UNCHANGED <<apiRest, apiVars>>
    \/ \E kind \in Scopes, token \in Presentable, client_host \in Clients :
          H_Admit(kind, token, client_host) /\ UNCHANGED apiRest
    \/ \E s \in open, disconnect \in BOOLEAN : WsFirstMessage(s, disconnect) /\ UNCHANGED apiRest
    \/ \E s \in open : WsEnd(s) /\ UNCHANGED apiRest
    \/ \E s \in open, ok \in BOOLEAN : UploadStart(s, ok) /\ UNCHANGED apiRest
    \/ ApiTick /\ UNCHANGED apiRest

SpecAdmit == ApiInit /\ [][AdmitNext]_vars

-----------------------------------------------------------------------------
(* The extractions of the live workers, concurrently *)

extractRest == <<storeVars, ingestVars, orchVars, threadVars, tokState, limVars, apiVars>>

ExtractNext ==
    \/ \E t \in LiveThreads : X_Begin(t) /\ UNCHANGED extractRest
    \/ \E t \in LiveThreads, ok \in BOOLEAN : X_Build(t, ok) /\ UNCHANGED extractRest
    \/ \E t \in LiveThreads : X_Wav(t) /\ UNCHANGED extractRest
    \/ \E t \in LiveThreads, outcome \in ExtractOutcomes :
          X_Ffmpeg(t, outcome) /\ UNCHANGED extractRest
    \/ \E t \in LiveThreads, duration \in {0, 50, 30000} :
          X_Check(t, duration) /\ UNCHANGED extractRest
    \/ \E t \in LiveThreads : X_Finally(t) /\ UNCHANGED extractRest

SpecExtract == Init /\ [][ExtractNext]_vars

-----------------------------------------------------------------------------
(* Claims about the extractor's temporary files *)

\* C35: when a call of build_and_extract_wav_chunk has returned None, neither
\* the stream it rebuilt nor the WAV it created exists; when it has returned
\* the WAV, the stream does not exist.
C35_NoTemporaryLeft ==
    \A t \in LiveThreads :
        xpc[t] = "returned" =>
            /\ TmpFile(t, ".webm") \notin tmp
            /\ xret[t] = None => TmpFile(t, ".wav") \notin tmp

\* what holds of every call: the rebuilt stream is gone when the call has
\* returned
C35_StreamRemoved ==
    \A t \in LiveThreads : xpc[t] = "returned" => TmpFile(t, ".webm") \notin tmp

\* a call has returned None and its WAV file exists
C35_WitnessWavLeft ==
    /\ xpc[0] = "returned"
    /\ xret[0] = None
    /\ TmpFile(0, ".wav") \in tmp

====
